---- MODULE Spec2Model ----
(***************************************************************************)
(* FlowCamProcessor (src/algae_lib/flowcam_utils.py) as a state machine,   *)
(* with S3Manager (src/algae_lib/s3_io.py) and the flowcam_daily_pipeline  *)
(* DAG (src/orchestration/airflow/dags/flowcam_daily.py).                  *)
(*                                                                         *)
(* A table (pandas DataFrame) is held column by column:                    *)
(*   columns : the column labels in order                                  *)
(*   index   : the row labels in row order                                 *)
(*   dtypes  : column label -> "object", "numeric", "datetime", "category" *)
(*   data    : column label -> the column's cells in row order             *)
(* A cell is a record [k, s, n, d]:                                        *)
(*   k = "str"  an object cell holding the text s                          *)
(*   k = "num"  a number, n/d, held in TENTHS (1.2 is n = 12, 1 is n = 10) *)
(*   k = "date" a Timestamp, n = yyyymmdd                                  *)
(*   k = "nan"  a missing number (NaN), k = "nat" a missing date (NaT)     *)
(*   k = "inf"  an infinite number, n its sign                             *)
(* The caller holds one table object, df, and passes it to the next call.  *)
(***************************************************************************)
EXTENDS Integers, Sequences, FiniteSets, TLC

VARIABLES
    df,       \* the table the caller holds and passes to the next call
    stage,    \* what produced df: "raw", "typed", "validated", "cleaned",
              \* "enriched", "aggregated", "processed"
    op,       \* the last method called ("none" before the first call)
    arg,      \* the argument table as it was when the last call was made
    argstage, \* stage of the argument of the last call
    post,     \* the argument object as the caller sees it after the call
    ret,      \* the table returned by the last call (NoTable when none)
    ret_is_arg, \* TRUE when the returned object is the argument object itself
    report,   \* the validation report returned by the last validate call
    raised,   \* TRUE when the last call let an exception reach its caller
    ret_none, \* TRUE when the last call returned None
    calls,    \* the processor methods the last call invoked, in order
    inv,      \* the pipeline invocations in progress, each with its own frame
    s3mgr,    \* an S3Manager, its environment and its boto3 client
    dag       \* a run of the flowcam_daily_pipeline DAG

vars == <<df, stage, op, arg, argstage, post, ret, ret_is_arg, report, raised,
          ret_none, calls, inv, s3mgr, dag>>

----------------------------------------------------------------------------
(* Bounds *)

MaxRows == 3

\* the rows of a file of two concurrent invocations
MaxConcurrentRows == 1

\* the operations made on one S3Manager
MaxS3Ops == 3

----------------------------------------------------------------------------
(* Cells *)

Str(s) == [k |-> "str", s |-> s, n |-> 0, d |-> 1]

Num(n) == [k |-> "num", s |-> "", n |-> n, d |-> 1]

Date(n) == [k |-> "date", s |-> "", n |-> n, d |-> 1]

NaN == [k |-> "nan", s |-> "", n |-> 0, d |-> 1]

NaT == [k |-> "nat", s |-> "", n |-> 0, d |-> 1]

Inf(sign) == [k |-> "inf", s |-> "", n |-> sign, d |-> 1]

isna(c) == c.k \in {"nan", "nat"}

Range(s) == {s[i] : i \in DOMAIN s}

----------------------------------------------------------------------------
(* FlowCamProcessor.__init__ : numbers in tenths *)

required_columns == <<"date", "tpu", "reactor", "algae_density">>

valid_tpu_range == <<1 * 10, 10 * 10>>

valid_reactor_range == <<1 * 10, 20 * 10>>

valid_density_range == <<0, 30>>

----------------------------------------------------------------------------
(* Tables *)

NoTable == [columns |-> <<>>, index |-> <<>>, dtypes |-> [c \in {} |-> ""],
            data |-> [c \in {} |-> <<>>]]

NRows(t) == Len(t.index)

HasCol(t, c) == c \in DOMAIN t.data

HasCols(t, cs) == \A c \in cs : HasCol(t, c)

\* variant: a new column takes the place and the label of the last column
SetColOverLast(t, c, dtype, vals) ==
    LET last == t.columns[Len(t.columns)]
        kept == IF HasCol(t, c) THEN DOMAIN t.data
                ELSE (DOMAIN t.data \ {last}) \cup {c}
    IN  [columns |-> IF HasCol(t, c) THEN t.columns
                     ELSE SubSeq(t.columns, 1, Len(t.columns) - 1) \o <<c>>,
         index   |-> t.index,
         dtypes  |-> [x \in kept |-> IF x = c THEN dtype ELSE t.dtypes[x]],
         data    |-> [x \in kept |-> IF x = c THEN vals ELSE t.data[x]]]

\* df[c] = vals : replaces the column, or appends it as a new last column
SetCol(t, c, dtype, vals) ==
    [columns |-> IF HasCol(t, c) THEN t.columns ELSE Append(t.columns, c),
     index   |-> t.index,
     dtypes  |-> [x \in (DOMAIN t.data) \cup {c} |->
                     IF x = c THEN dtype ELSE t.dtypes[x]],
     data    |-> [x \in (DOMAIN t.data) \cup {c} |->
                     IF x = c THEN vals ELSE t.data[x]]]

\* the rows at the positions pos (a sequence of row positions), in that order
Take(t, pos) ==
    [columns |-> t.columns,
     index   |-> [i \in 1..Len(pos) |-> t.index[pos[i]]],
     dtypes  |-> t.dtypes,
     data    |-> [c \in DOMAIN t.data |->
                     [i \in 1..Len(pos) |-> t.data[c][pos[i]]]]]

Positions(t) == [i \in 1..NRows(t) |-> i]


----------------------------------------------------------------------------
(* pandas coercions with errors='coerce' *)

\* the date texts the inputs use; any other text is not a date
ParseDate(s) ==
    CASE s = "2024-01-01" -> Date(20240101)
      [] s = "2024-01-02" -> Date(20240102)
      [] OTHER -> NaT

\* the number texts the inputs use, in tenths; any other text is not a number
ParseNumeric(s) ==
    CASE s = "1" -> Num(10)
      [] s = "10" -> Num(100)
      [] s = "15" -> Num(150)
      [] s = "1.2" -> Num(12)
      [] s = "5.0" -> Num(50)
      [] OTHER -> NaN

\* pd.to_datetime(x, errors='coerce') on one cell of a column of texts/dates
to_datetime(c) ==
    CASE c.k = "date" -> c
      [] c.k = "str" -> ParseDate(c.s)
      [] OTHER -> NaT

\* pd.to_numeric(x, errors='coerce') on one cell
to_numeric(c) ==
    CASE c.k \in {"num", "inf"} -> c
      [] c.k = "str" -> ParseNumeric(c.s)
      [] OTHER -> NaN

\* df['date'] = pd.to_datetime(df['date'], errors='coerce')
CoerceDate(t) ==
    SetCol(t, "date", "datetime",
           [i \in 1..NRows(t) |-> to_datetime(t.data["date"][i])])

\* df[c] = pd.to_numeric(df[c], errors='coerce')
CoerceNumeric(t, c) ==
    SetCol(t, c, "numeric", [i \in 1..NRows(t) |-> to_numeric(t.data[c][i])])

----------------------------------------------------------------------------
(* Comparisons of a cell with a number: every comparison with NaN is False *)

lt(c, x) == \/ c.k = "num" /\ c.n < x * c.d
            \/ c.k = "inf" /\ c.n < 0

gt(c, x) == \/ c.k = "num" /\ c.n > x * c.d
            \/ c.k = "inf" /\ c.n > 0

ge(c, x) == \/ c.k = "num" /\ c.n >= x * c.d
            \/ c.k = "inf" /\ c.n > 0

le(c, x) == \/ c.k = "num" /\ c.n <= x * c.d
            \/ c.k = "inf" /\ c.n < 0

\* series.isna().sum()
CountNa(col) == Cardinality({i \in DOMAIN col : isna(col[i])})

\* variant: a missing value counts as out of range
CountOutOfRangeOrNa(col, range) ==
    Cardinality({i \in DOMAIN col :
                    isna(col[i]) \/ lt(col[i], range[1]) \/ gt(col[i], range[2])})

\* ((series < range[0]) | (series > range[1])).sum()
CountOutOfRange(col, range) ==
    Cardinality({i \in DOMAIN col : lt(col[i], range[1]) \/ gt(col[i], range[2])})

\* if n > 0: warnings.append(f"{n}<text>")
WarnIf(warnings, n, text) ==
    IF n > 0 THEN Append(warnings, ToString(n) \o text) ELSE warnings

----------------------------------------------------------------------------
(* validate_flowcam_data *)

\* One column's block of the try body.  st = [df, warnings, failed, err]:
\* df is the caller's table object, which df[col] = ... assigns into;
\* a column that is absent raises KeyError, which ends the try body.
CheckColumn(st, col, naText, hasRange, range, rangeText) ==
    IF st.failed THEN st
    ELSE IF ~HasCol(st.df, col)
    THEN [st EXCEPT !.failed = TRUE, !.err = col]
    ELSE LET t == IF col = "date" THEN CoerceDate(st.df)
                  ELSE CoerceNumeric(st.df, col)
             w1 == WarnIf(st.warnings, CountNa(t.data[col]), naText)
             w2 == IF hasRange
                   THEN WarnIf(w1, CountOutOfRange(t.data[col], range), rangeText)
                   ELSE w1
         IN  [st EXCEPT !.df = t, !.warnings = w2]

\* lines 75-113, the try body, column after column
ValidateChecks(t) ==
    LET s0 == [df |-> t, warnings |-> <<>>, failed |-> FALSE, err |-> ""]
        s1 == CheckColumn(s0, "date", " invalid dates found",
                          FALSE, <<0, 0>>, "")
        s2 == CheckColumn(s1, "tpu", " invalid TPU values found",
                          TRUE, valid_tpu_range, " TPU values out of range")
        s3 == CheckColumn(s2, "reactor", " invalid reactor values found",
                          TRUE, valid_reactor_range, " reactor values out of range")
        s4 == CheckColumn(s3, "algae_density",
                          " invalid density values found",
                          TRUE, valid_density_range, " density values out of range")
    IN  s4

NewReport(t) ==
    [is_valid |-> TRUE, errors |-> <<>>, warnings |-> <<>>,
     row_count |-> NRows(t), column_count |-> Len(t.columns)]

\* the report after the try/except of lines 75-117
ReportAfterChecks(r0, st) ==
    IF st.failed
    THEN [r0 EXCEPT !.is_valid = FALSE,
                    !.errors = Append(@, [msg |-> "Data validation error: ",
                                          cols |-> {st.err}]),
                    !.warnings = st.warnings]
    ELSE [r0 EXCEPT !.warnings = st.warnings]

\* variant: the early return of lines 71-72 is missing
validate_no_early_return(t) ==
    LET missing == Range(required_columns) \ Range(t.columns)
        r0 == NewReport(t)
        r1 == IF missing # {}
              THEN [r0 EXCEPT !.is_valid = FALSE,
                              !.errors = <<[msg |-> "Missing required columns: ",
                                            cols |-> missing]>>]
              ELSE r0
        st == ValidateChecks(t)
    IN  [report |-> ReportAfterChecks(r1, st), df |-> st.df]

\* variant: a warning makes the report invalid
validate_warnings_fatal(t) ==
    LET missing == Range(required_columns) \ Range(t.columns)
        r0 == NewReport(t)
    IN  IF missing # {}
        THEN [report |-> [r0 EXCEPT !.is_valid = FALSE,
                                    !.errors = <<[msg |-> "Missing required columns: ",
                                                  cols |-> missing]>>],
              df |-> t]
        ELSE LET st == ValidateChecks(t)
                 r == ReportAfterChecks(r0, st)
             IN  [report |-> [r EXCEPT !.is_valid = (r.warnings = <<>>)],
                  df |-> st.df]

\* returns the report and the argument object as the call leaves it
validate_flowcam_data(t) ==
    LET missing == Range(required_columns) \ Range(t.columns)
        r0 == NewReport(t)
    IN  IF missing # {}
        THEN [report |-> [r0 EXCEPT !.is_valid = FALSE,
                                    !.errors = <<[msg |-> "Missing required columns: ",
                                                  cols |-> missing]>>],
              df |-> t]
        ELSE LET st == ValidateChecks(t)
             IN  [report |-> ReportAfterChecks(r0, st), df |-> st.df]

----------------------------------------------------------------------------
(* DataFrame operations used by the cleaner and the enricher *)

\* df.dropna(subset=cols): the rows with no missing cell in cols, in order
dropna(t, cols) ==
    Take(t, SelectSeq(Positions(t),
                      LAMBDA i : \A c \in Range(cols) : ~isna(t.data[c][i])))

\* variant: the upper bounds are exclusive
InRangesExclusive(t, i) ==
    /\ ge(t.data["tpu"][i], valid_tpu_range[1])
    /\ lt(t.data["tpu"][i], valid_tpu_range[2])
    /\ ge(t.data["reactor"][i], valid_reactor_range[1])
    /\ lt(t.data["reactor"][i], valid_reactor_range[2])
    /\ ge(t.data["algae_density"][i], valid_density_range[1])
    /\ lt(t.data["algae_density"][i], valid_density_range[2])

\* variant: the TPU range is not checked
InRangesNoTpu(t, i) ==
    /\ ge(t.data["reactor"][i], valid_reactor_range[1])
    /\ le(t.data["reactor"][i], valid_reactor_range[2])
    /\ ge(t.data["algae_density"][i], valid_density_range[1])
    /\ le(t.data["algae_density"][i], valid_density_range[2])

\* df[mask] for the cleaner's range mask of lines 152-159
InRanges(t, i) ==
    /\ ge(t.data["tpu"][i], valid_tpu_range[1])
    /\ le(t.data["tpu"][i], valid_tpu_range[2])
    /\ ge(t.data["reactor"][i], valid_reactor_range[1])
    /\ le(t.data["reactor"][i], valid_reactor_range[2])
    /\ ge(t.data["algae_density"][i], valid_density_range[1])
    /\ le(t.data["algae_density"][i], valid_density_range[2])

FilterRanges(t) == Take(t, SelectSeq(Positions(t), LAMBDA i : InRanges(t, i)))

\* ordering of two cells of a sort key; missing values sort last
CellLess(a, b) ==
    IF isna(a) THEN FALSE
    ELSE IF isna(b) THEN TRUE
    ELSE a.n * b.d < b.n * a.d

CellSame(a, b) ==
    \/ isna(a) /\ isna(b)
    \/ ~isna(a) /\ ~isna(b) /\ a.n * b.d = b.n * a.d

\* row i sorts strictly before row j under the key columns by, lexicographically
RECURSIVE RowLess(_, _, _, _)
RowLess(t, by, i, j) ==
    IF by = <<>> THEN FALSE
    ELSE LET c == Head(by)
         IN  \/ CellLess(t.data[c][i], t.data[c][j])
             \/ /\ CellSame(t.data[c][i], t.data[c][j])
                /\ RowLess(t, Tail(by), i, j)

\* variant: a row goes before the rows with an equal key (not stable)
InsertAtUnstable(t, by, sorted, i) ==
    LET before == {k \in 1..Len(sorted) : RowLess(t, by, sorted[k], i)}
        n == Cardinality(before)
    IN  SubSeq(sorted, 1, n) \o <<i>> \o SubSeq(sorted, n + 1, Len(sorted))

\* where row i goes in the sorted positions: after every row not greater
\* than it, so that rows with equal keys keep their order (a stable sort)
InsertAt(t, by, sorted, i) ==
    LET before == {k \in 1..Len(sorted) : ~RowLess(t, by, i, sorted[k])}
        n == Cardinality(before)
    IN  SubSeq(sorted, 1, n) \o <<i>> \o SubSeq(sorted, n + 1, Len(sorted))

RECURSIVE SortedPositions(_, _, _)
SortedPositions(t, by, n) ==
    IF n = 0 THEN <<>>
    ELSE InsertAt(t, by, SortedPositions(t, by, n - 1), n)

\* variant: the rows stay in the order they have
sort_values_skipped(t, by) == t

\* variant: only the first key column orders the rows
sort_values_first_key(t, by) ==
    Take(t, SortedPositions(t, <<Head(by)>>, NRows(t)))

\* df.sort_values(by): several key columns, ascending, stable
sort_values(t, by) == Take(t, SortedPositions(t, by, NRows(t)))

\* variant: reset_index() without drop=True keeps the old labels as a column
reset_index_keep(t) ==
    LET r == [t EXCEPT !.index = [i \in 1..NRows(t) |-> i - 1]]
    IN  SetCol(r, "index", "numeric", [i \in 1..NRows(t) |-> Num(10 * t.index[i])])

\* df.reset_index(drop=True): the row labels become 0..n-1
reset_index(t) == [t EXCEPT !.index = [i \in 1..NRows(t) |-> i - 1]]

----------------------------------------------------------------------------
(* clean_flowcam_data *)

\* lines 133-168, the try body on a copy of t: [failed, df]
CleanBody(t) ==
    IF ~HasCols(t, Range(required_columns))
    THEN [failed |-> TRUE, df |-> t]   \* KeyError on the first absent column
    ELSE LET c1 == CoerceDate(t)
             c2 == CoerceNumeric(c1, "tpu")
             c3 == CoerceNumeric(c2, "reactor")
             c4 == CoerceNumeric(c3, "algae_density")
             c5 == dropna(c4, <<"date", "tpu", "reactor", "algae_density">>)
             c6 == FilterRanges(c5)
             c7 == sort_values(c6, <<"date", "tpu", "reactor">>)
             c8 == reset_index(c7)
         IN  [failed |-> FALSE, df |-> c8]

\* variant: on an internal failure an empty table is returned
clean_fail_closed(t) ==
    LET b == CleanBody(t)
    IN  IF b.failed
        THEN [ret |-> NoTable, is_arg |-> FALSE, raised |-> FALSE, post |-> t]
        ELSE [ret |-> b.df, is_arg |-> FALSE, raised |-> FALSE, post |-> t]

\* variant: without the try of line 132 the exception reaches the caller
clean_raises(t) ==
    LET b == CleanBody(t)
    IN  IF b.failed
        THEN [ret |-> NoTable, is_arg |-> FALSE, raised |-> TRUE, post |-> t]
        ELSE [ret |-> b.df, is_arg |-> FALSE, raised |-> FALSE, post |-> t]

\* returns the table, whether it is the argument object itself, whether an
\* exception left the call, and the argument object as the call leaves it
clean_flowcam_data(t) ==
    LET b == CleanBody(t)
    IN  IF b.failed
        THEN [ret |-> t, is_arg |-> TRUE, raised |-> FALSE, post |-> t]
        ELSE [ret |-> b.df, is_arg |-> FALSE, raised |-> FALSE, post |-> t]

----------------------------------------------------------------------------
(* Arithmetic on numeric cells (IEEE: a division by zero gives inf or NaN) *)

Abs(x) == IF x < 0 THEN -x ELSE x

RECURSIVE GCD(_, _)
GCD(a, b) == IF b = 0 THEN a ELSE GCD(b, a % b)

\* the number n/d (d # 0) in lowest terms with a positive denominator
Frac(n, d) ==
    LET g == GCD(Abs(n), Abs(d))
        sg == IF d < 0 THEN -1 ELSE 1
    IN  [k |-> "num", s |-> "", n |-> sg * (n \div g), d |-> Abs(d) \div g]

Sub(a, b) ==
    CASE a.k = "num" /\ b.k = "num" -> Frac(a.n * b.d - b.n * a.d, a.d * b.d)
      [] a.k = "inf" /\ b.k = "num" -> a
      [] a.k = "num" /\ b.k = "inf" -> Inf(-b.n)
      [] a.k = "inf" /\ b.k = "inf" /\ a.n # b.n -> a
      [] OTHER -> NaN

\* a / b, a ratio of two numbers held in tenths, itself held in tenths
Div(a, b) ==
    CASE a.k = "num" /\ b.k = "num" /\ b.n # 0 -> Frac(10 * a.n * b.d, a.d * b.n)
      [] a.k = "num" /\ b.k = "num" /\ b.n = 0 /\ a.n > 0 -> Inf(1)
      [] a.k = "num" /\ b.k = "num" /\ b.n = 0 /\ a.n < 0 -> Inf(-1)
      [] a.k = "inf" /\ b.k = "num" /\ b.n > 0 -> a
      [] a.k = "inf" /\ b.k = "num" /\ b.n < 0 -> Inf(-a.n)
      [] a.k = "num" /\ b.k = "inf" -> Num(0)
      [] OTHER -> NaN

\* a * m for a positive integer m
Times(a, m) ==
    CASE a.k = "num" -> Frac(a.n * m, a.d)
      [] a.k = "inf" -> a
      [] OTHER -> NaN

----------------------------------------------------------------------------
(* The .dt accessors of a datetime column; results are numbers in tenths *)

YearOf(n) == n \div 10000

MonthOf(n) == (n \div 100) % 100

DayOf(n) == n % 100

IsLeap(y) == (y % 4 = 0) /\ ((y % 100 # 0) \/ (y % 400 = 0))

DaysInMonth(y, m) ==
    CASE m \in {1, 3, 5, 7, 8, 10, 12} -> 31
      [] m \in {4, 6, 9, 11} -> 30
      [] OTHER -> IF IsLeap(y) THEN 29 ELSE 28

RECURSIVE DaysBeforeMonth(_, _)
DaysBeforeMonth(y, m) ==
    IF m = 1 THEN 0 ELSE DaysBeforeMonth(y, m - 1) + DaysInMonth(y, m - 1)

\* proleptic Gregorian ordinal, day 1 being 0001-01-01 (a Monday)
Ordinal(y, m, d) ==
    365 * (y - 1) + ((y - 1) \div 4) - ((y - 1) \div 100) + ((y - 1) \div 400)
    + DaysBeforeMonth(y, m) + d

\* Monday = 0 .. Sunday = 6
Weekday(n) == (Ordinal(YearOf(n), MonthOf(n), DayOf(n)) + 6) % 7

\* ordinal of the Monday that starts ISO week 1 of year y
IsoWeek1Monday(y) ==
    LET first == Ordinal(y, 1, 1)
        wd == (first + 6) % 7
    IN  IF wd > 3 THEN first - wd + 7 ELSE first - wd

IsoWeek(n) ==
    LET y == YearOf(n)
        today == Ordinal(y, MonthOf(n), DayOf(n))
        w == (today - IsoWeek1Monday(y)) \div 7
    IN  IF w < 0 THEN ((today - IsoWeek1Monday(y - 1)) \div 7) + 1
        ELSE IF w >= 52 /\ today >= IsoWeek1Monday(y + 1) THEN 1
        ELSE w + 1

\* a missing date has missing fields
dt_year(c) == IF c.k = "date" THEN Num(10 * YearOf(c.n)) ELSE NaN

dt_month(c) == IF c.k = "date" THEN Num(10 * MonthOf(c.n)) ELSE NaN

dt_day(c) == IF c.k = "date" THEN Num(10 * DayOf(c.n)) ELSE NaN

dt_dayofweek(c) == IF c.k = "date" THEN Num(10 * Weekday(c.n)) ELSE NaN

dt_isoweek(c) == IF c.k = "date" THEN Num(10 * IsoWeek(c.n)) ELSE NaN

----------------------------------------------------------------------------
(* pd.cut of lines 195-200: bins in tenths, right-closed, lowest included *)

CutBins == <<0, 5, 10, 15, 20, 30>>

CutLabels == <<"Very Low", "Low", "Medium", "High", "Very High">>

\* variant: pd.cut without include_lowest, the lowest edge is excluded
density_category_no_lowest(c) ==
    IF c.k # "num" THEN NaN
    ELSE LET hit == {b \in 1..Len(CutLabels) :
                        gt(c, CutBins[b]) /\ le(c, CutBins[b + 1])}
         IN  IF hit = {} THEN NaN ELSE Str(CutLabels[CHOOSE b \in hit : TRUE])

density_category(c) ==
    IF c.k # "num" THEN NaN
    ELSE LET hit == {b \in 1..Len(CutLabels) :
                        \/ gt(c, CutBins[b]) /\ le(c, CutBins[b + 1])
                        \/ b = 1 /\ c.n = CutBins[1] * c.d}
         IN  IF hit = {} THEN NaN ELSE Str(CutLabels[CHOOSE b \in hit : TRUE])

----------------------------------------------------------------------------
(* groupby(keys)[col].diff() and .pct_change() *)

\* rows i and j belong to the same group; a row with a missing key has none
SameGroup(t, keys, i, j) ==
    \A c \in Range(keys) :
        /\ ~isna(t.data[c][i])
        /\ t.data[c][i] = t.data[c][j]

\* variant: every row belongs to one group (no groupby)
PrevInTable(t, keys, i) == i - 1

\* the position of the row before row i in i's group, 0 when there is none
PrevInGroup(t, keys, i) ==
    LET before == {j \in 1..(i - 1) : SameGroup(t, keys, i, j)}
    IN  IF before = {} THEN 0 ELSE CHOOSE j \in before : \A k \in before : k <= j

group_diff(t, keys, col) ==
    [i \in 1..NRows(t) |->
        LET p == PrevInGroup(t, keys, i)
        IN  IF p = 0 THEN NaN ELSE Sub(t.data[col][i], t.data[col][p])]

\* pandas computes x / x.shift(1) - 1 within each group
group_pct_change(t, keys, col) ==
    [i \in 1..NRows(t) |->
        LET p == PrevInGroup(t, keys, i)
        IN  IF p = 0 THEN NaN
            ELSE Sub(Div(t.data[col][i], t.data[col][p]), Num(10))]

----------------------------------------------------------------------------
(* add_derived_columns *)

\* lines 185-208, the try body on a copy of t: [failed, df].  The .dt
\* accessor raises on a column that is absent or not of datetime dtype,
\* pd.cut on a column that is absent or not numeric, the sort on absent keys.
EnrichBody(t) ==
    IF \/ ~HasCols(t, Range(required_columns))
       \/ t.dtypes["date"] # "datetime"
       \/ t.dtypes["algae_density"] # "numeric"
    THEN [failed |-> TRUE, df |-> t]
    ELSE LET e1 == SetCol(t, "year", "numeric",
                     [i \in 1..NRows(t) |-> dt_year(t.data["date"][i])])
             e2 == SetCol(e1, "month", "numeric",
                     [i \in 1..NRows(t) |-> dt_month(t.data["date"][i])])
             e3 == SetCol(e2, "day", "numeric",
                     [i \in 1..NRows(t) |-> dt_day(t.data["date"][i])])
             e4 == SetCol(e3, "day_of_week", "numeric",
                     [i \in 1..NRows(t) |-> dt_dayofweek(t.data["date"][i])])
             e5 == SetCol(e4, "week_of_year", "numeric",
                     [i \in 1..NRows(t) |-> dt_isoweek(t.data["date"][i])])
             e6 == SetCol(e5, "density_category", "category",
                     [i \in 1..NRows(t) |->
                         density_category(t.data["algae_density"][i])])
             e7 == sort_values(e6, <<"tpu", "reactor", "date">>)
             e8 == SetCol(e7, "density_change", "numeric",
                     group_diff(e7, <<"tpu", "reactor">>, "algae_density"))
             pct == group_pct_change(e8, <<"tpu", "reactor">>, "algae_density")
             e9 == SetCol(e8, "density_change_pct", "numeric",
                     [i \in 1..NRows(t) |-> Times(pct[i], 100)])
         IN  [failed |-> FALSE, df |-> e9]

\* variant: on a failure an empty table is returned
enrich_fail_closed(t) ==
    LET b == EnrichBody(t)
    IN  IF b.failed
        THEN [ret |-> NoTable, is_arg |-> FALSE, raised |-> FALSE, post |-> t]
        ELSE [ret |-> b.df, is_arg |-> FALSE, raised |-> FALSE, post |-> t]

\* variant: without the copy of line 185 the columns are added to the
\* argument itself
enrich_in_place(t) ==
    LET b == EnrichBody(t)
    IN  IF b.failed
        THEN [ret |-> t, is_arg |-> TRUE, raised |-> FALSE, post |-> t]
        ELSE [ret |-> b.df, is_arg |-> TRUE, raised |-> FALSE, post |-> b.df]

\* returns the table, whether it is the argument object itself, whether an
\* exception left the call, and the argument object as the call leaves it
add_derived_columns(t) ==
    LET b == EnrichBody(t)
    IN  IF b.failed
        THEN [ret |-> t, is_arg |-> TRUE, raised |-> FALSE, post |-> t]
        ELSE [ret |-> b.df, is_arg |-> FALSE, raised |-> FALSE, post |-> t]

----------------------------------------------------------------------------
(* Arithmetic of the aggregates of lines 226-228 *)

Add(a, b) ==
    CASE a.k = "num" /\ b.k = "num" -> Frac(a.n * b.d + b.n * a.d, a.d * b.d)
      [] OTHER -> NaN

RECURSIVE SumCells(_)
SumCells(cells) ==
    IF cells = <<>> THEN Num(0) ELSE Add(Head(cells), SumCells(Tail(cells)))

\* a / m for a positive integer m
Over(a, m) == IF a.k = "num" THEN Frac(a.n, a.d * m) ELSE NaN

Square(a) == IF a.k = "num" THEN Frac(a.n * a.n, a.d * a.d) ELSE NaN

RECURSIVE Pow10(_)
Pow10(e) == IF e = 0 THEN 1 ELSE 10 * Pow10(e - 1)

\* the integer nearest to a / b (b > 0), a tie going to the even neighbour
RoundHalfEven(a, b) ==
    LET q == a \div b
        r == a % b
    IN  IF 2 * r < b THEN q
        ELSE IF 2 * r > b THEN q + 1
        ELSE IF q % 2 = 0 THEN q ELSE q + 1

\* .round(4) of line 228: the fractional digits kept
RoundDigits == 4

\* variant: .round(2), two fractional digits are kept
TenthScaleTwoDigits == Pow10(2 - 1)

\* a number held in tenths with RoundDigits fractional digits has
\* RoundDigits - 1 fractional digits of a tenth
TenthScale == Pow10(RoundDigits - 1)

\* round(RoundDigits) of a cell; a missing value stays missing
round(c) ==
    IF c.k = "num" THEN Frac(RoundHalfEven(TenthScale * c.n, c.d), TenthScale)
    ELSE c

\* the largest s in lo..hi with s * s <= x
RECURSIVE ISqrtIn(_, _, _)
ISqrtIn(lo, hi, x) ==
    IF lo = hi THEN lo
    ELSE LET mid == (lo + hi + 1) \div 2
         IN  IF mid * mid <= x THEN ISqrtIn(mid, hi, x)
             ELSE ISqrtIn(lo, mid - 1, x)

\* the integer square root of x, 0 <= x < 2^31
ISqrt(x) == ISqrtIn(0, 46340, x)

\* round(RoundDigits) of the square root of v, a variance of numbers held in
\* tenths: the k / TenthScale nearest to sqrt(v), found in integers as the
\* k with (2k - 1)^2 <= 4 * TenthScale^2 * v < (2k + 1)^2
sqrt_round(v) ==
    IF v.k # "num" THEN NaN
    ELSE LET m == 4 * TenthScale * TenthScale
             whole == m * (v.n \div v.d) + (m * (v.n % v.d)) \div v.d
             exact == (m * (v.n % v.d)) % v.d = 0
             s == ISqrt(whole)
             k == (s + 1) \div 2
         IN  IF exact /\ s * s = whole /\ s % 2 = 1 /\ k % 2 = 1
             THEN Frac(k - 1, TenthScale)
             ELSE Frac(k, TenthScale)

----------------------------------------------------------------------------
(* The aggregate functions of line 227 on the non-missing cells of a group *)

agg_mean(vals) ==
    IF vals = <<>> THEN NaN ELSE Over(SumCells(vals), Len(vals))

agg_min(vals) ==
    IF vals = <<>> THEN NaN
    ELSE CHOOSE v \in Range(vals) : \A w \in Range(vals) : ~CellLess(w, v)

agg_max(vals) ==
    IF vals = <<>> THEN NaN
    ELSE CHOOSE v \in Range(vals) : \A w \in Range(vals) : ~CellLess(v, w)

\* variant: the population variance (divisor count)
agg_var_population(vals) ==
    IF vals = <<>> THEN NaN
    ELSE LET m == agg_mean(vals)
             sq == [i \in 1..Len(vals) |-> Square(Sub(vals[i], m))]
         IN  Over(SumCells(sq), Len(vals))

\* the sample variance of 'std' (ddof = 1): divisor count - 1, missing for
\* fewer than two values
agg_var(vals) ==
    IF Len(vals) < 2 THEN NaN
    ELSE LET m == agg_mean(vals)
             sq == [i \in 1..Len(vals) |-> Square(Sub(vals[i], m))]
         IN  Over(SumCells(sq), Len(vals) - 1)

agg_count(vals) == Num(10 * Len(vals))

AggFunctions == <<"mean", "min", "max", "std", "count">>

\* one aggregate of a group, rounded (line 228)
AggCell(f, vals) ==
    CASE f = "mean"  -> round(agg_mean(vals))
      [] f = "min"   -> round(agg_min(vals))
      [] f = "max"   -> round(agg_max(vals))
      [] f = "std"   -> sqrt_round(agg_var(vals))
      [] f = "count" -> round(agg_count(vals))

----------------------------------------------------------------------------
(* calculate_daily_aggregates *)

GroupKeys == <<"date", "tpu", "reactor">>

\* variant: a group per unit and sub-unit, whatever the date
GroupFirstsNoDate(t, keys) ==
    SelectSeq(Positions(t),
              LAMBDA i : /\ \A c \in Range(keys) : ~isna(t.data[c][i])
                         /\ \A j \in 1..(i - 1) :
                                ~SameGroup(t, <<"tpu", "reactor">>, i, j))

\* groupby(keys): the position of the first row of every group, in row
\* order; a row with a missing key belongs to no group
GroupFirsts(t, keys) ==
    SelectSeq(Positions(t),
              LAMBDA i : /\ \A c \in Range(keys) : ~isna(t.data[c][i])
                         /\ \A j \in 1..(i - 1) : ~SameGroup(t, keys, i, j))

\* the non-missing cells of col in the rows whose key is that of row g of
\* the table reps of group keys
GroupValues(t, keys, col, reps, g) ==
    LET members == SelectSeq(Positions(t),
                       LAMBDA i : \A c \in Range(keys) :
                                      t.data[c][i] = reps.data[c][g])
        present == SelectSeq(members, LAMBDA i : ~isna(t.data[col][i]))
    IN  [k \in 1..Len(present) |-> t.data[col][present[k]]]

\* line 231: the two levels of an aggregate's column label joined by '_'
FlatName(col, f) == col \o "_" \o f

\* lines 235-241
RenameTo(name) ==
    CASE name = "algae_density_mean"  -> "avg_density"
      [] name = "algae_density_min"   -> "min_density"
      [] name = "algae_density_max"   -> "max_density"
      [] name = "algae_density_std"   -> "std_density"
      [] name = "algae_density_count" -> "measurement_count"
      [] OTHER -> name

\* the table out with one more column per aggregate function of fs
RECURSIVE AddAggColumns(_, _, _, _)
AddAggColumns(out, t, reps, fs) ==
    IF fs = <<>> THEN out
    ELSE AddAggColumns(
             SetCol(out, RenameTo(FlatName("algae_density", Head(fs))), "numeric",
                    [g \in 1..NRows(reps) |->
                        AggCell(Head(fs),
                                GroupValues(t, GroupKeys, "algae_density", reps, g))]),
             t, reps, Tail(fs))

\* lines 226-241, the try body: [failed, df].  The groupby raises on an
\* absent key column and the aggregation on an absent measurement column;
\* the groups come in the order of their keys, which reset_index() turns
\* into the first columns
AggregateBody(t) ==
    IF ~HasCols(t, Range(GroupKeys) \cup {"algae_density"})
    THEN [failed |-> TRUE, df |-> NoTable]
    ELSE LET reps == sort_values(Take(t, GroupFirsts(t, GroupKeys)), GroupKeys)
             keyed == [columns |-> GroupKeys,
                       index   |-> [g \in 1..NRows(reps) |-> g - 1],
                       dtypes  |-> [c \in Range(GroupKeys) |-> t.dtypes[c]],
                       data    |-> [c \in Range(GroupKeys) |-> reps.data[c]]]
         IN  [failed |-> FALSE,
              df |-> AddAggColumns(keyed, t, reps, AggFunctions)]

\* variant: on a failure the argument is returned
aggregate_fail_open(t) ==
    LET b == AggregateBody(t)
    IN  IF b.failed
        THEN [ret |-> t, is_arg |-> TRUE, raised |-> FALSE, post |-> t]
        ELSE [ret |-> b.df, is_arg |-> FALSE, raised |-> FALSE, post |-> t]

\* lines 224-248: on a failure pd.DataFrame(), a table with no column and
\* no row, is returned
calculate_daily_aggregates(t) ==
    LET b == AggregateBody(t)
    IN  IF b.failed
        THEN [ret |-> NoTable, is_arg |-> FALSE, raised |-> FALSE, post |-> t]
        ELSE [ret |-> b.df, is_arg |-> FALSE, raised |-> FALSE, post |-> t]

----------------------------------------------------------------------------
(* Inputs: tables of at most MaxRows rows.  A row is the row of the unit   *)
(* tests' valid data with at most one cell replaced, or the tests' row      *)
(* that is bad in every cell.                                               *)

BaseRow == [date |-> Str("2024-01-01"), tpu |-> Num(10), reactor |-> Num(10),
            algae_density |-> Num(12)]

AllBadRow == [date |-> Str("invalid-date"), tpu |-> Num(150), reactor |-> Num(250),
              algae_density |-> Str("5.0")]

AltCells(c) ==
    CASE c = "date" -> {Str("2024-01-02"), Str("invalid-date")}
      [] c = "tpu" -> {Str("10"), Num(150), Str("abc")}
      [] c = "reactor" -> {Num(200), Num(0)}
      [] c = "algae_density" -> {Num(0), Num(30), Num(50), Str("bad")}

RawRows ==
    {BaseRow, AllBadRow}
    \cup UNION {{[BaseRow EXCEPT ![c] = v] : v \in AltCells(c)} :
                c \in Range(required_columns)}

\* the column layouts of the inputs: the four required columns, the four
\* and a pass-through column, and the tests' table that lacks two columns
ColumnLayouts ==
    {required_columns, required_columns \o <<"notes">>, <<"date", "tpu">>}

\* the dtype pandas gives a column built from these cells
InferDtype(cells) ==
    IF cells # <<>> /\ \A i \in DOMAIN cells : cells[i].k = "num"
    THEN "numeric"
    ELSE IF cells # <<>> /\ \A i \in DOMAIN cells : cells[i].k = "date"
    THEN "datetime" ELSE "object"

MakeTable(rows, cols) ==
    LET cells(c) == [i \in 1..Len(rows) |->
                        IF c = "notes" THEN Str("r" \o ToString(i - 1))
                        ELSE rows[i][c]]
    IN  [columns |-> cols,
         index   |-> [i \in 1..Len(rows) |-> i - 1],
         dtypes  |-> [c \in Range(cols) |-> InferDtype(cells(c))],
         data    |-> [c \in Range(cols) |-> cells(c)]]

RawTables ==
    {MakeTable(rows, cols) :
        rows \in UNION {[1..n -> RawRows] : n \in 0..MaxRows},
        cols \in ColumnLayouts}

\* The files given to process_flowcam_file and the tables of a caller that
\* also aggregates: the rows are the valid row, the row bad in every cell,
\* and rows with a later date, a unit given as text, a zero measurement, a
\* measurement out of range and an unparseable measurement.
PipelineRows ==
    {BaseRow, AllBadRow,
     [BaseRow EXCEPT !.date = Str("2024-01-02")],
     [BaseRow EXCEPT !.tpu = Str("10")],
     [BaseRow EXCEPT !.algae_density = Num(0)],
     [BaseRow EXCEPT !.algae_density = Num(50)],
     [BaseRow EXCEPT !.algae_density = Str("bad")]}

PipelineTables ==
    {MakeTable(rows, cols) :
        rows \in UNION {[1..n -> PipelineRows] : n \in 0..MaxRows},
        cols \in ColumnLayouts}

\* A caller may also build a table whose date column holds Timestamps and
\* hand it to the enricher or the aggregator, as the unit tests do.  The
\* measurements, in tenths, lie on, between and beyond the category edges;
\* such a table has a row, whose cells give the columns their dtypes.
TypedDensities == {-1, 0, 5, 8, 10, 12, 14, 15, 16, 20, 25, 30, 31}

TypedRows ==
    {[date |-> Date(20240101), tpu |-> Num(10), reactor |-> Num(10),
      algae_density |-> Num(m)] : m \in TypedDensities}
    \cup {[date |-> Date(20240102), tpu |-> Num(10), reactor |-> Num(10),
           algae_density |-> Num(16)],
          [date |-> Date(20240102), tpu |-> Num(20), reactor |-> Num(20),
           algae_density |-> Num(15)]}

TypedTables ==
    {MakeTable(rows, required_columns) :
        rows \in UNION {[1..n -> TypedRows] : n \in 1..MaxRows}}

----------------------------------------------------------------------------
(* read_flowcam_csv and process_flowcam_file *)

\* lines 29-45: a file is its content and whether pd.read_csv can read it;
\* None is returned for a file that cannot be read
read_flowcam_csv(file) ==
    IF file.readable THEN [none |-> FALSE, df |-> file.table]
    ELSE [none |-> TRUE, df |-> NoTable]

NoReport == [is_valid |-> TRUE, errors |-> <<>>, warnings |-> <<>>,
             row_count |-> 0, column_count |-> 0]

\* the result of a call that returns None after the calls made so far
ReturnNone(rep, made) ==
    [ret |-> NoTable, none |-> TRUE, raised |-> FALSE, report |-> rep,
     calls |-> made]

\* variant: a failed validation is logged and the processing goes on
process_ignores_invalid(file) ==
    LET rd == read_flowcam_csv(file)
        v == validate_flowcam_data(rd.df)
        c == clean_flowcam_data(v.df)
        e == add_derived_columns(c.ret)
    IN  IF rd.none THEN ReturnNone(NoReport, <<"read_flowcam_csv">>)
        ELSE [ret |-> e.ret, none |-> FALSE, raised |-> FALSE,
              report |-> v.report,
              calls |-> <<"read_flowcam_csv", "validate_flowcam_data",
                          "clean_flowcam_data", "add_derived_columns">>]

\* variant: the table read, not the cleaned one, is enriched
process_enriches_uncleaned(file) ==
    LET rd == read_flowcam_csv(file)
        v == validate_flowcam_data(rd.df)
        c == clean_flowcam_data(v.df)
        e == add_derived_columns(v.df)
    IN  IF rd.none THEN ReturnNone(NoReport, <<"read_flowcam_csv">>)
        ELSE IF ~v.report.is_valid
        THEN ReturnNone(v.report, <<"read_flowcam_csv", "validate_flowcam_data">>)
        ELSE [ret |-> e.ret, none |-> FALSE, raised |-> FALSE,
              report |-> v.report,
              calls |-> <<"read_flowcam_csv", "validate_flowcam_data",
                          "clean_flowcam_data", "add_derived_columns">>]

\* lines 260-286: the table read is validated (which coerces its columns in
\* place), then cleaned, and the cleaned table is enriched; an exception of
\* a step is caught at line 284 and None returned
process_flowcam_file(file) ==
    LET rd == read_flowcam_csv(file)
        v == validate_flowcam_data(rd.df)
        c == clean_flowcam_data(v.df)
        e == add_derived_columns(c.ret)
    IN  IF rd.none THEN ReturnNone(NoReport, <<"read_flowcam_csv">>)
        ELSE IF ~v.report.is_valid
        THEN ReturnNone(v.report, <<"read_flowcam_csv", "validate_flowcam_data">>)
        ELSE IF c.raised
        THEN ReturnNone(v.report, <<"read_flowcam_csv", "validate_flowcam_data",
                                    "clean_flowcam_data">>)
        ELSE IF e.raised
        THEN ReturnNone(v.report, <<"read_flowcam_csv", "validate_flowcam_data",
                                    "clean_flowcam_data", "add_derived_columns">>)
        ELSE [ret |-> e.ret, none |-> FALSE, raised |-> FALSE,
              report |-> v.report,
              calls |-> <<"read_flowcam_csv", "validate_flowcam_data",
                          "clean_flowcam_data", "add_derived_columns">>]

----------------------------------------------------------------------------
(* The state machine *)

\* no S3Manager has been made
NoManager == [made |-> FALSE]

\* no run of the DAG has been started
NoRun == [started |-> FALSE]

Init ==
    /\ df \in RawTables
    /\ stage = "raw"
    /\ op = "none"
    /\ arg = NoTable
    /\ argstage = "none"
    /\ post = NoTable
    /\ ret = NoTable
    /\ ret_is_arg = FALSE
    /\ report = NoReport
    /\ raised = FALSE
    /\ ret_none = FALSE
    /\ calls = <<>>
    /\ inv = <<>>
    /\ s3mgr = NoManager
    /\ dag = NoRun

\* the caller validates the raw table it holds (line 267)
Validate ==
    /\ stage = "raw"
    /\ \E r \in {validate_flowcam_data(df)} :
           /\ report' = r.report
           /\ post' = r.df
           /\ df' = r.df
    /\ op' = "validate"
    /\ arg' = df
    /\ argstage' = stage
    /\ stage' = "validated"
    /\ ret' = NoTable
    /\ ret_is_arg' = FALSE
    /\ raised' = FALSE
    /\ ret_none' = FALSE
    /\ calls' = <<"validate_flowcam_data">>
    /\ UNCHANGED <<inv, s3mgr, dag>>

\* the caller cleans the table it holds (line 276) and goes on with the result
Clean ==
    /\ stage \in {"raw", "validated", "cleaned"}
    /\ \E r \in {clean_flowcam_data(df)} :
           /\ ret' = r.ret
           /\ ret_is_arg' = r.is_arg
           /\ raised' = r.raised
           /\ post' = r.post
           /\ df' = r.ret
    /\ op' = "clean"
    /\ arg' = df
    /\ argstage' = stage
    /\ stage' = "cleaned"
    /\ ret_none' = FALSE
    /\ calls' = <<"clean_flowcam_data">>
    /\ UNCHANGED <<inv, s3mgr, dag>>
    /\ UNCHANGED report

\* the caller enriches the table the cleaner returned (line 279), or a
\* table it built with a Timestamp date column
AddDerivedColumns ==
    /\ stage \in {"cleaned", "typed"}
    /\ \E r \in {add_derived_columns(df)} :
           /\ ret' = r.ret
           /\ ret_is_arg' = r.is_arg
           /\ raised' = r.raised
           /\ post' = r.post
           /\ df' = r.ret
    /\ op' = "enrich"
    /\ arg' = df
    /\ argstage' = stage
    /\ stage' = "enriched"
    /\ ret_none' = FALSE
    /\ calls' = <<"add_derived_columns">>
    /\ UNCHANGED <<inv, s3mgr, dag>>
    /\ UNCHANGED report

\* the caller aggregates the table the cleaner returned, or a table it
\* built with a Timestamp date column
Aggregate ==
    /\ stage \in {"cleaned", "typed"}
    /\ \E r \in {calculate_daily_aggregates(df)} :
           /\ ret' = r.ret
           /\ ret_is_arg' = r.is_arg
           /\ raised' = r.raised
           /\ post' = r.post
           /\ df' = r.ret
    /\ op' = "aggregate"
    /\ arg' = df
    /\ argstage' = stage
    /\ stage' = "aggregated"
    /\ ret_none' = FALSE
    /\ calls' = <<"calculate_daily_aggregates">>
    /\ UNCHANGED <<inv, s3mgr, dag>>
    /\ UNCHANGED report

\* the caller has the file holding the raw table processed; the file may
\* be unreadable
Process ==
    /\ stage = "raw"
    /\ \E readable \in BOOLEAN :
       \E r \in {process_flowcam_file([readable |-> readable, table |-> df])} :
           /\ ret' = r.ret
           /\ ret_none' = r.none
           /\ raised' = r.raised
           /\ report' = r.report
           /\ calls' = r.calls
           /\ df' = r.ret
    /\ op' = "process"
    /\ arg' = df
    /\ argstage' = stage
    /\ post' = df
    /\ ret_is_arg' = FALSE
    /\ stage' = "processed"
    /\ UNCHANGED <<inv, s3mgr, dag>>

\* a caller that validates, cleans and enriches a table
Next == Validate \/ Clean \/ AddDerivedColumns

Spec == Init /\ [][Next]_vars

\* a caller that uses every method of the processor
InitAll ==
    /\ df \in PipelineTables
    /\ stage = "raw"
    /\ op = "none"
    /\ arg = NoTable
    /\ argstage = "none"
    /\ post = NoTable
    /\ ret = NoTable
    /\ ret_is_arg = FALSE
    /\ report = NoReport
    /\ raised = FALSE
    /\ ret_none = FALSE
    /\ calls = <<>>
    /\ inv = <<>>
    /\ s3mgr = NoManager
    /\ dag = NoRun

NextAll == Validate \/ Clean \/ AddDerivedColumns \/ Aggregate \/ Process

SpecAll == InitAll /\ [][NextAll]_vars

\* The tables given to the validator alone: in each of the three numeric
\* columns a value that is no number, numbers and number texts below and
\* above the range, and the bounds of the range.
ValidatedRows ==
    {BaseRow, AllBadRow, [BaseRow EXCEPT !.date = Str("invalid-date")]}
    \cup {[BaseRow EXCEPT !.tpu = v] :
             v \in {Str("abc"), Str("15"), Num(0), Num(100)}}
    \cup {[BaseRow EXCEPT !.reactor = v] :
             v \in {Str("x"), Num(0), Num(200), Num(250)}}
    \cup {[BaseRow EXCEPT !.algae_density = v] :
             v \in {Str("bad"), Num(-1), Num(0), Num(30), Num(50)}}

\* a caller that only validates the file it read
InitValidate ==
    /\ df \in {MakeTable(rows, cols) :
                  rows \in UNION {[1..n -> ValidatedRows] : n \in 0..MaxRows},
                  cols \in {required_columns, <<"date", "tpu">>}}
    /\ stage = "raw"
    /\ op = "none"
    /\ arg = NoTable
    /\ argstage = "none"
    /\ post = NoTable
    /\ ret = NoTable
    /\ ret_is_arg = FALSE
    /\ report = NoReport
    /\ raised = FALSE
    /\ ret_none = FALSE
    /\ calls = <<>>
    /\ inv = <<>>
    /\ s3mgr = NoManager
    /\ dag = NoRun

SpecValidate == InitValidate /\ [][Validate]_vars

\* a caller that starts from a table with a Timestamp date column
InitTyped ==
    /\ df \in TypedTables
    /\ stage = "typed"
    /\ op = "none"
    /\ arg = NoTable
    /\ argstage = "none"
    /\ post = NoTable
    /\ ret = NoTable
    /\ ret_is_arg = FALSE
    /\ report = NoReport
    /\ raised = FALSE
    /\ ret_none = FALSE
    /\ calls = <<>>
    /\ inv = <<>>
    /\ s3mgr = NoManager
    /\ dag = NoRun

NextTyped == AddDerivedColumns \/ Aggregate

SpecTyped == InitTyped /\ [][NextTyped]_vars

----------------------------------------------------------------------------
(* Two invocations of process_flowcam_file whose steps interleave.  Each   *)
(* invocation has its own frame: the local variables df, validation,       *)
(* cleaned_df and enhanced_df of lines 262-279.  A table object lives in a *)
(* slot of inv.objs; the validator changes the object in its slot.         *)

pvars == <<df, stage, op, arg, argstage, post, ret, ret_is_arg, report, raised,
           ret_none, calls>>

\* no call of the caller of the sequential machine has been made
PipelineIdle ==
    /\ df = NoTable
    /\ stage = "none"
    /\ op = "none"
    /\ arg = NoTable
    /\ argstage = "none"
    /\ post = NoTable
    /\ ret = NoTable
    /\ ret_is_arg = FALSE
    /\ report = NoReport
    /\ raised = FALSE
    /\ ret_none = FALSE
    /\ calls = <<>>

Invocations == {1, 2}

\* the attributes __init__ gives a processor (lines 24-27)
ProcessorConfig ==
    [required_columns |-> required_columns,
     valid_tpu_range |-> valid_tpu_range,
     valid_reactor_range |-> valid_reactor_range,
     valid_density_range |-> valid_density_range]

ConcurrentRows ==
    {BaseRow, AllBadRow, [BaseRow EXCEPT !.algae_density = Num(0)]}

\* the files of the invocations: a readable file has a table, an
\* unreadable one has none
ConcurrentFiles ==
    {[readable |-> TRUE, table |-> MakeTable(rows, cols)] :
        rows \in UNION {[1..n -> ConcurrentRows] : n \in 0..MaxConcurrentRows},
        cols \in {required_columns, <<"date", "tpu">>}}
    \cup {[readable |-> FALSE, table |-> NoTable]}

\* variant: the table read is kept in one place shared by the invocations
SlotShared(i) == 1

\* the slot of the table object that df of invocation i refers to: the
\* object pd.read_csv made for this invocation (line 262)
Slot(i) == i

NewFrame(file, p) ==
    [pc |-> "read", file |-> file, proc |-> p, validation |-> NoReport,
     cleaned_df |-> NoTable, result |-> NoTable, none |-> FALSE]

InitConcurrent ==
    /\ PipelineIdle
    /\ s3mgr = NoManager
    /\ dag = NoRun
    /\ \E f1, f2 \in ConcurrentFiles, p \in Invocations :
           inv = [frames |-> <<NewFrame(f1, 1), NewFrame(f2, p)>>,
                  objs |-> [k \in Invocations |-> NoTable],
                  processors |-> [k \in Invocations |-> ProcessorConfig]]

\* invocation i ends with the value None
FrameNone(i) == [inv.frames[i] EXCEPT !.pc = "done", !.none = TRUE]

\* line 262-264
InvRead ==
    \E i \in Invocations :
        /\ inv.frames[i].pc = "read"
        /\ \E rd \in {read_flowcam_csv(inv.frames[i].file)} :
               inv' = IF rd.none
                      THEN [inv EXCEPT !.frames[i] = FrameNone(i)]
                      ELSE [inv EXCEPT !.frames[i].pc = "validate",
                                       !.objs[Slot(i)] = rd.df]
        /\ UNCHANGED <<pvars, s3mgr, dag>>

\* lines 267-270
InvValidate ==
    \E i \in Invocations :
        /\ inv.frames[i].pc = "validate"
        /\ \E v \in {validate_flowcam_data(inv.objs[Slot(i)])} :
               inv' = IF ~v.report.is_valid
                      THEN [inv EXCEPT !.frames[i] =
                                [FrameNone(i) EXCEPT !.validation = v.report],
                                       !.objs[Slot(i)] = v.df]
                      ELSE [inv EXCEPT !.frames[i].pc = "clean",
                                       !.frames[i].validation = v.report,
                                       !.objs[Slot(i)] = v.df]
        /\ UNCHANGED <<pvars, s3mgr, dag>>

\* line 276
InvClean ==
    \E i \in Invocations :
        /\ inv.frames[i].pc = "clean"
        /\ \E c \in {clean_flowcam_data(inv.objs[Slot(i)])} :
               inv' = [inv EXCEPT !.frames[i].pc = "enrich",
                                  !.frames[i].cleaned_df = c.ret]
        /\ UNCHANGED <<pvars, s3mgr, dag>>

\* lines 279-282
InvEnrich ==
    \E i \in Invocations :
        /\ inv.frames[i].pc = "enrich"
        /\ \E e \in {add_derived_columns(inv.frames[i].cleaned_df)} :
               inv' = [inv EXCEPT !.frames[i].pc = "done",
                                  !.frames[i].result = e.ret]
        /\ UNCHANGED <<pvars, s3mgr, dag>>

NextConcurrent == InvRead \/ InvValidate \/ InvClean \/ InvEnrich

SpecConcurrent == InitConcurrent /\ [][NextConcurrent]_vars

----------------------------------------------------------------------------
(* S3Manager (src/algae_lib/s3_io.py).  The manager is a record of its     *)
(* attributes; a boto3 client is the position of its arguments in the list *)
(* of the clients made so far, 0 standing for None.  What the S3 service,  *)
(* boto3 and the file system answer is an input of each operation.         *)

PyNone == "<None>"

\* os.getenv(name, default)
getenv(env, name, default) == IF env[name] = PyNone THEN default ELSE env[name]

\* the environment of the unit tests, and one with another endpoint and
\* keys and without region and bucket
Environments ==
    {[S3_ENDPOINT_URL |-> "http://localhost:9000", S3_ACCESS_KEY |-> "test_key",
      S3_SECRET_KEY |-> "test_secret", S3_REGION |-> "us-east-1",
      S3_BUCKET |-> "test-bucket"],
     [S3_ENDPOINT_URL |-> "http://minio:9000", S3_ACCESS_KEY |-> "other_key",
      S3_SECRET_KEY |-> "other_secret", S3_REGION |-> PyNone,
      S3_BUCKET |-> PyNone]}

\* S3Manager.__init__ (lines 22-31) in the environment env
NewManager(env) ==
    [made |-> TRUE,
     env |-> env,
     endpoint_url |-> getenv(env, "S3_ENDPOINT_URL", PyNone),
     access_key |-> getenv(env, "S3_ACCESS_KEY", PyNone),
     secret_key |-> getenv(env, "S3_SECRET_KEY", PyNone),
     region |-> getenv(env, "S3_REGION", "us-east-1"),
     bucket |-> getenv(env, "S3_BUCKET", "baralgae-bronze"),
     client |-> 0,
     resource |-> 0,
     clients |-> <<>>,
     resources |-> <<>>,
     env0 |-> env,
     op |-> "none",
     bucket_name |-> PyNone,
     file_exists |-> PyNone,
     ret |-> PyNone,
     raised |-> "none",
     log |-> <<>>,
     nops |-> 0]

\* the keyword arguments of boto3.client and boto3.resource (lines 38-44)
ClientArgs(m) ==
    [endpoint_url |-> m.endpoint_url, aws_access_key_id |-> m.access_key,
     aws_secret_access_key |-> m.secret_key, region_name |-> m.region]

\* variant: a client is made at every read of the property
client_uncached(m, ok) ==
    IF ok THEN [m |-> [m EXCEPT !.client = Len(m.clients) + 1,
                                !.clients = Append(m.clients, ClientArgs(m))],
                raised |-> "none", client |-> Len(m.clients) + 1]
    ELSE [m |-> m, raised |-> "NoCredentialsError", client |-> 0]

\* the client property (lines 33-48); ok: boto3.client returns a client
client(m, ok) ==
    IF m.client # 0 THEN [m |-> m, raised |-> "none", client |-> m.client]
    ELSE IF ok
    THEN [m |-> [m EXCEPT !.client = Len(m.clients) + 1,
                          !.clients = Append(m.clients, ClientArgs(m))],
          raised |-> "none", client |-> Len(m.clients) + 1]
    ELSE [m |-> m, raised |-> "NoCredentialsError", client |-> 0]

\* the resource property (lines 50-65)
resource(m, ok) ==
    IF m.resource # 0 THEN [m |-> m, raised |-> "none", resource |-> m.resource]
    ELSE IF ok
    THEN [m |-> [m EXCEPT !.resource = Len(m.resources) + 1,
                          !.resources = Append(m.resources, ClientArgs(m))],
          raised |-> "none", resource |-> Len(m.resources) + 1]
    ELSE [m |-> m, raised |-> "NoCredentialsError", resource |-> 0]

\* the error codes of a ClientError of head_bucket
ErrorCodes == {"404", "403", "NoSuchBucket", "AccessDenied"}

\* int(code) of line 84: the number a decimal string denotes, ValueError
\* for any other string
IntOfCode(code) ==
    CASE code = "404" -> [raised |-> "none", value |-> 404]
      [] code = "403" -> [raised |-> "none", value |-> 403]
      [] OTHER -> [raised |-> "ValueError", value |-> 0]

\* bucket_name or self.bucket (lines 77, 110, 138, 162, 189)
BucketOr(m, bucket_name) == IF bucket_name = PyNone THEN m.bucket ELSE bucket_name

\* one call of a method of the client c, with what the service answered
ClientCall(c, method, bucket, answer) ==
    [client |-> c, method |-> method, bucket |-> bucket, answer |-> answer]

\* the outcome of an operation: the manager, the value returned, the
\* exception that left the call and the calls made on clients
Outcome(m, value, exc, log) ==
    [m |-> m, ret |-> value, raised |-> exc, log |-> log]

\* what the collaborators answer during one operation: whether boto3
\* makes a client, and the answer of each method of the client ("ok" or
\* the error code of a ClientError for head_bucket)
Answers ==
    [construct : BOOLEAN,
     head : {"ok"} \cup ErrorCodes,
     create : {"ok", "ClientError"},
     transfer : {"ok", "ClientError"}]

\* variant: the bucket is created after any ClientError of head_bucket
ensure_bucket_creates_always(m, bucket_name, ans) ==
    LET bucket == BucketOr(m, bucket_name)
        c1 == client(m, ans.construct)
        head == ClientCall(c1.client, "head_bucket", bucket, ans.head)
        c2 == client(c1.m, ans.construct)
        create == ClientCall(c2.client, "create_bucket", bucket, ans.create)
    IN  IF c1.raised # "none" THEN Outcome(c1.m, PyNone, c1.raised, <<>>)
        ELSE IF ans.head = "ok" THEN Outcome(c1.m, TRUE, "none", <<head>>)
        ELSE IF c2.raised # "none"
        THEN Outcome(c2.m, PyNone, c2.raised, <<head>>)
        ELSE Outcome(c2.m, ans.create = "ok", "none", <<head, create>>)

\* ensure_bucket (lines 67-96)
ensure_bucket(m, bucket_name, ans) ==
    LET bucket == BucketOr(m, bucket_name)
        c1 == client(m, ans.construct)
        head == ClientCall(c1.client, "head_bucket", bucket, ans.head)
        error_code == IntOfCode(ans.head)
        c2 == client(c1.m, ans.construct)
        create == ClientCall(c2.client, "create_bucket", bucket, ans.create)
    IN  IF c1.raised # "none" THEN Outcome(c1.m, PyNone, c1.raised, <<>>)
        ELSE IF ans.head = "ok" THEN Outcome(c1.m, TRUE, "none", <<head>>)
        ELSE IF error_code.raised # "none"
        THEN Outcome(c1.m, PyNone, error_code.raised, <<head>>)
        ELSE IF error_code.value = 404
        THEN IF c2.raised # "none"
             THEN Outcome(c2.m, PyNone, c2.raised, <<head>>)
             ELSE Outcome(c2.m, ans.create = "ok", "none", <<head, create>>)
        ELSE Outcome(c1.m, FALSE, "none", <<head>>)

\* upload_file (lines 98-124); file_exists: the local path names a file.
\* The client's upload_file raises FileNotFoundError for a missing file.
upload_file(m, file_exists, bucket_name, ans) ==
    LET bucket == BucketOr(m, bucket_name)
        e == ensure_bucket(m, bucket, ans)
        c == client(e.m, ans.construct)
        answer == IF file_exists THEN ans.transfer ELSE "FileNotFoundError"
        upload == ClientCall(c.client, "upload_file", bucket, answer)
    IN  IF e.raised # "none" THEN e
        ELSE IF ~e.ret THEN Outcome(e.m, FALSE, "none", e.log)
        ELSE IF c.raised # "none" THEN Outcome(c.m, PyNone, c.raised, e.log)
        ELSE Outcome(c.m, answer = "ok", "none", Append(e.log, upload))

\* download_file (lines 126-149)
download_file(m, bucket_name, ans) ==
    LET bucket == BucketOr(m, bucket_name)
        c == client(m, ans.construct)
        download == ClientCall(c.client, "download_file", bucket, ans.transfer)
    IN  IF c.raised # "none" THEN Outcome(c.m, PyNone, c.raised, <<>>)
        ELSE Outcome(c.m, ans.transfer = "ok", "none", <<download>>)

\* list_objects (lines 151-176); the keys of the response stand for the
\* response with Contents, the empty list for the one without
list_objects(m, bucket_name, ans, keys) ==
    LET bucket == BucketOr(m, bucket_name)
        c == client(m, ans.construct)
        list == ClientCall(c.client, "list_objects_v2", bucket, ans.transfer)
    IN  IF c.raised # "none" THEN Outcome(c.m, PyNone, c.raised, <<>>)
        ELSE IF ans.transfer = "ok" THEN Outcome(c.m, keys, "none", <<list>>)
        ELSE Outcome(c.m, <<>>, "none", <<list>>)

\* delete_object (lines 178-197)
delete_object(m, bucket_name, ans) ==
    LET bucket == BucketOr(m, bucket_name)
        c == client(m, ans.construct)
        delete == ClientCall(c.client, "delete_object", bucket, ans.transfer)
    IN  IF c.raised # "none" THEN Outcome(c.m, PyNone, c.raised, <<>>)
        ELSE Outcome(c.m, ans.transfer = "ok", "none", <<delete>>)

\* the bucket names passed by a caller
BucketNames == {PyNone, "other-bucket"}

\* the manager after the operation name with outcome o, called with the
\* bucket name b on a local file that exists or not (PyNone: no local file)
After(o, name, b, file_exists) ==
    [o.m EXCEPT !.op = name, !.ret = o.ret, !.raised = o.raised,
                !.log = o.log, !.nops = @ + 1,
                !.bucket_name = b, !.file_exists = file_exists]

InitS3 ==
    /\ PipelineIdle
    /\ inv = <<>>
    /\ dag = NoRun
    /\ \E env \in Environments : s3mgr = NewManager(env)

\* the process changes its environment after the manager was made
SetEnv ==
    /\ s3mgr.made /\ s3mgr.nops < MaxS3Ops
    /\ \E env \in Environments \ {s3mgr.env} :
          s3mgr' = [s3mgr EXCEPT !.env = env, !.op = "setenv", !.ret = PyNone,
                                 !.raised = "none", !.log = <<>>,
                                 !.nops = @ + 1, !.bucket_name = PyNone,
                                 !.file_exists = PyNone]
    /\ UNCHANGED <<pvars, inv, dag>>

ReadClient ==
    /\ s3mgr.made /\ s3mgr.nops < MaxS3Ops
    /\ \E ok \in BOOLEAN :
       \E c \in {client(s3mgr, ok)} :
          s3mgr' = After(Outcome(c.m, c.client, c.raised, <<>>), "client",
                         PyNone, PyNone)
    /\ UNCHANGED <<pvars, inv, dag>>

ReadResource ==
    /\ s3mgr.made /\ s3mgr.nops < MaxS3Ops
    /\ \E ok \in BOOLEAN :
       \E r \in {resource(s3mgr, ok)} :
          s3mgr' = After(Outcome(r.m, r.resource, r.raised, <<>>), "resource",
                         PyNone, PyNone)
    /\ UNCHANGED <<pvars, inv, dag>>

EnsureBucket ==
    /\ s3mgr.made /\ s3mgr.nops < MaxS3Ops
    /\ \E b \in BucketNames, ans \in Answers :
          s3mgr' = After(ensure_bucket(s3mgr, b, ans), "ensure_bucket", b, PyNone)
    /\ UNCHANGED <<pvars, inv, dag>>

UploadFile ==
    /\ s3mgr.made /\ s3mgr.nops < MaxS3Ops
    /\ \E b \in BucketNames, ans \in Answers, file_exists \in BOOLEAN :
          s3mgr' = After(upload_file(s3mgr, file_exists, b, ans),
                         "upload_file", b, file_exists)
    /\ UNCHANGED <<pvars, inv, dag>>

DownloadFile ==
    /\ s3mgr.made /\ s3mgr.nops < MaxS3Ops
    /\ \E b \in BucketNames, ans \in Answers :
          s3mgr' = After(download_file(s3mgr, b, ans), "download_file", b, PyNone)
    /\ UNCHANGED <<pvars, inv, dag>>

ListObjects ==
    /\ s3mgr.made /\ s3mgr.nops < MaxS3Ops
    /\ \E b \in BucketNames, ans \in Answers,
          keys \in {<<>>, <<"test1.csv", "test2.csv">>} :
          s3mgr' = After(list_objects(s3mgr, b, ans, keys), "list_objects", b, PyNone)
    /\ UNCHANGED <<pvars, inv, dag>>

DeleteObject ==
    /\ s3mgr.made /\ s3mgr.nops < MaxS3Ops
    /\ \E b \in BucketNames, ans \in Answers :
          s3mgr' = After(delete_object(s3mgr, b, ans), "delete_object", b, PyNone)
    /\ UNCHANGED <<pvars, inv, dag>>

NextS3 ==
    \/ SetEnv
    \/ ReadClient
    \/ ReadResource
    \/ EnsureBucket
    \/ UploadFile
    \/ DownloadFile
    \/ ListObjects
    \/ DeleteObject

SpecS3 == InitS3 /\ [][NextS3]_vars

----------------------------------------------------------------------------
(* The DAG flowcam_daily_pipeline                                          *)
(* (src/orchestration/airflow/dags/flowcam_daily.py).  A run of the DAG    *)
(* holds the state and the try number of each task instance; the scheduler *)
(* starts a task under the default trigger rule all_success, and a         *)
(* callable either returns or raises, whatever its collaborators did.      *)

\* default_args['retries'] (line 35)
retries == 1

\* the task ids of the operators (lines 163-191)
Tasks ==
    {"seed_demo_data", "upload_to_s3", "load_to_database",
     "validate_data_quality", "run_dbt_transformation"}

\* the operands of the chain of >> (line 194), from left to right
Chain ==
    <<"seed_demo_data", "upload_to_s3", "load_to_database",
      "validate_data_quality", "run_dbt_transformation">>

\* variant: no dependency is set between the tasks
UpstreamUnset(t) == {}

\* the upstream tasks of t: a >> b makes a upstream of b
Upstream(t) ==
    {Chain[i] : i \in {j \in 1..(Len(Chain) - 1) : Chain[j + 1] = t}}

\* the downstream tasks of t
Downstream(t) == {d \in Tasks : t \in Upstream(d)}

\* a run of the DAG that the scheduler just created
NewRun ==
    [started |-> TRUE,
     state |-> [t \in Tasks |-> "none"],
     try_number |-> [t \in Tasks |-> 0]]

InitDag ==
    /\ PipelineIdle
    /\ inv = <<>>
    /\ s3mgr = NoManager
    /\ dag = NewRun

\* the scheduler starts a task instance that has no state or awaits its
\* retry, once all its upstream tasks succeeded (trigger rule all_success)
StartTask ==
    /\ dag.started
    /\ \E t \in Tasks :
         /\ dag.state[t] \in {"none", "up_for_retry"}
         /\ \A u \in Upstream(t) : dag.state[u] = "success"
         /\ dag' = [dag EXCEPT !.state[t] = "running",
                               !.try_number[t] = @ + 1]
    /\ UNCHANGED <<pvars, inv, s3mgr>>

\* the callable of a running task returns
TaskReturns ==
    /\ dag.started
    /\ \E t \in Tasks :
         /\ dag.state[t] = "running"
         /\ dag' = [dag EXCEPT !.state[t] = "success"]
    /\ UNCHANGED <<pvars, inv, s3mgr>>

\* the callable of a running task raises: the task awaits its retry while
\* it has tries left, and has failed otherwise
TaskRaises ==
    /\ dag.started
    /\ \E t \in Tasks :
         /\ dag.state[t] = "running"
         /\ dag' = [dag EXCEPT !.state[t] =
                        IF dag.try_number[t] <= retries THEN "up_for_retry"
                        ELSE "failed"]
    /\ UNCHANGED <<pvars, inv, s3mgr>>

\* the scheduler gives up a task one of whose upstream tasks failed
UpstreamFailed ==
    /\ dag.started
    /\ \E t \in Tasks :
         /\ dag.state[t] = "none"
         /\ \E u \in Upstream(t) : dag.state[u] \in {"failed", "upstream_failed"}
         /\ dag' = [dag EXCEPT !.state[t] = "upstream_failed"]
    /\ UNCHANGED <<pvars, inv, s3mgr>>

NextDag ==
    \/ StartTask
    \/ TaskReturns
    \/ TaskRaises
    \/ UpstreamFailed

SpecDag == InitDag /\ [][NextDag]_vars

----------------------------------------------------------------------------
(* Helpers of the properties *)

Required == Range(required_columns)

\* row i of table a and row j of table b hold the same cells (labels aside)
SameRow(a, i, b, j) ==
    /\ DOMAIN a.data = DOMAIN b.data
    /\ \A c \in DOMAIN a.data : a.data[c][i] = b.data[c][j]

\* the cell of column c in row i of t after the cleaner's coercion
CoercedCell(t, c, i) ==
    CASE c = "date" -> to_datetime(t.data[c][i])
      [] c \in {"tpu", "reactor", "algae_density"} -> to_numeric(t.data[c][i])
      [] OTHER -> t.data[c][i]

\* row i of t is a MeasurementRecord: nothing missing, every value in range
RowIsMeasurement(t, i) ==
    /\ HasCols(t, Required)
    /\ t.data["date"][i].k = "date"
    /\ \A c \in {"tpu", "reactor", "algae_density"} : t.data[c][i].k = "num"
    /\ 1 * 10 <= t.data["tpu"][i].n /\ t.data["tpu"][i].n <= 10 * 10
    /\ 1 * 10 <= t.data["reactor"][i].n /\ t.data["reactor"][i].n <= 20 * 10
    /\ 0 <= t.data["algae_density"][i].n /\ t.data["algae_density"][i].n <= 30

\* the rows of a coerced table that some warning of the validator counts
WarnedRows(t) ==
    {i \in 1..NRows(t) :
        \/ \E c \in Required : isna(t.data[c][i])
        \/ lt(t.data["tpu"][i], 1 * 10) \/ gt(t.data["tpu"][i], 10 * 10)
        \/ lt(t.data["reactor"][i], 1 * 10) \/ gt(t.data["reactor"][i], 20 * 10)
        \/ lt(t.data["algae_density"][i], 0) \/ gt(t.data["algae_density"][i], 30)}

----------------------------------------------------------------------------
(* Properties *)

\* C1: a table that lacks a required column is reported invalid, with a first
\* error that names the missing columns, no warning, and no coercion run.
C1_MissingColumnsFatal ==
    (op = "validate" /\ ~HasCols(arg, Required)) =>
        /\ report.is_valid = FALSE
        /\ Len(report.errors) > 0
        /\ report.errors[1].msg = "Missing required columns: "
        /\ report.errors[1].cols = Required \ Range(arg.columns)
        /\ report.errors[1].cols # {}
        /\ report.warnings = <<>>
        /\ post = arg

C1_Witness ==
    /\ op = "validate"
    /\ ~HasCols(arg, Required)
    /\ \E i \in 1..NRows(arg) : arg.data["date"][i] = Str("invalid-date")
    /\ \E i \in 1..NRows(arg) : arg.data["tpu"][i] = Num(150)
    /\ report.is_valid = FALSE

\* C2: a table with the four required columns is reported valid with no
\* error, however many values are unparseable or out of range.
C2_WarningsNotFatal ==
    (op = "validate" /\ HasCols(arg, Required)) =>
        /\ report.is_valid = TRUE
        /\ report.errors = <<>>

C2_Witness ==
    /\ op = "validate"
    /\ HasCols(arg, Required)
    /\ Len(report.warnings) >= 5
    /\ report.is_valid = TRUE

\* C3: the validator leaves every cell of the caller's table as it was.
C3_ValidateLeavesInput ==
    op = "validate" => post = arg

\* C4 as stated: every row of any table the cleaner returns is in range and
\* has no missing value.
C4_EveryReturnedRowInRange ==
    op = "clean" => \A i \in 1..NRows(ret) : RowIsMeasurement(ret, i)

\* C4 amended: for an input with the four required columns, every row of
\* the table the cleaner returns is in range (bounds inclusive) and has no
\* missing value in the four columns.
C4_CleanedRowsInRange ==
    (op = "clean" /\ HasCols(arg, Required)) =>
        \A i \in 1..NRows(ret) : RowIsMeasurement(ret, i)

C4_Witness ==
    /\ op = "clean"
    /\ HasCols(arg, Required)
    /\ NRows(arg) = 3
    /\ NRows(ret) = 2
    /\ \E i \in 1..NRows(ret) : ret.data["tpu"][i] = Num(100)
    /\ \E i \in 1..NRows(ret) : ret.data["algae_density"][i] = Num(30)

\* C5: cleaning a cleaned table returns a table equal to it in rows, row
\* order, index and columns.
C5_CleanIdempotent ==
    (op = "clean" /\ argstage = "cleaned" /\ HasCols(arg, Required)) => ret = arg

C5_Witness ==
    /\ op = "clean"
    /\ argstage = "cleaned"
    /\ HasCols(arg, Required)
    /\ NRows(ret) >= 2
    /\ \E i \in 1..(NRows(ret) - 1) :
          /\ \A c \in {"date", "tpu", "reactor"} : ret.data[c][i] = ret.data[c][i + 1]
          /\ ret.data["algae_density"][i] # ret.data["algae_density"][i + 1]

\* C6: the cleaner returns at most as many rows as it was given, each the
\* coerced form of a distinct row of the input, under the input's columns.
C6_CleanAddsNothing ==
    (op = "clean" /\ HasCols(arg, Required)) =>
        /\ 0 <= NRows(ret) /\ NRows(ret) <= NRows(arg)
        /\ ret.columns = arg.columns
        /\ DOMAIN ret.data = DOMAIN arg.data
        /\ \E f \in [1..NRows(ret) -> 1..NRows(arg)] :
              /\ \A j, k \in 1..NRows(ret) : f[j] = f[k] => j = k
              /\ \A j \in 1..NRows(ret) : \A c \in DOMAIN arg.data :
                    ret.data[c][j] = CoercedCell(arg, c, f[j])

C6_Witness ==
    /\ op = "clean"
    /\ argstage = "raw"
    /\ HasCols(arg, Required \cup {"notes"})
    /\ NRows(arg) = 3
    /\ NRows(ret) = 2
    /\ ret.data["notes"] = <<Str("r2"), Str("r0")>>

\* C7: after validate and then clean, a row counted in some warning is still
\* in the validated table and is not in the cleaned one, a row counted in no
\* warning is in the cleaned one, and the report has no warning exactly when
\* the cleaner drops no row.
C7_WarnedRowsAreTheDroppedRows ==
    (op = "clean" /\ argstage = "validated" /\ HasCols(arg, Required)) =>
        /\ NRows(arg) = report.row_count
        /\ (report.warnings = <<>>) <=> (WarnedRows(arg) = {})
        /\ (report.warnings = <<>>) <=> (NRows(ret) = NRows(arg))
        /\ NRows(ret) = NRows(arg) - Cardinality(WarnedRows(arg))
        /\ \A i \in WarnedRows(arg) :
              \A j \in 1..NRows(ret) : ~SameRow(arg, i, ret, j)
        /\ \A i \in (1..NRows(arg)) \ WarnedRows(arg) :
              \E j \in 1..NRows(ret) : SameRow(arg, i, ret, j)

C7_Witness ==
    /\ op = "clean"
    /\ argstage = "validated"
    /\ HasCols(arg, Required)
    /\ \E i \in WarnedRows(arg) : arg.data["tpu"][i] = Num(150)
    /\ \E i \in (1..NRows(arg)) \ WarnedRows(arg) : arg.data["tpu"][i] = Num(100)
    /\ report.is_valid = TRUE
    /\ Len(report.warnings) = 1

\* C8: the cleaner lets no exception reach its caller; on an internal failure
\* (a required column is absent) it returns the very table it was given,
\* uncoerced and unfiltered.
C8_CleanFailsOpen ==
    op = "clean" =>
        /\ raised = FALSE
        /\ ~HasCols(arg, Required) =>
              /\ ret_is_arg = TRUE
              /\ ret = arg
              /\ post = arg

C8_Witness ==
    /\ op = "clean"
    /\ ~HasCols(arg, Required)
    /\ ret_is_arg = TRUE
    /\ \E i \in 1..NRows(ret) : ret.data["tpu"][i] = Num(150)
    /\ \E i \in 1..NRows(ret) : ret.data["date"][i] = Str("invalid-date")

\* the row before row i in i's (tpu, reactor) series, 0 when i is the first
SeriesPrev(t, i) ==
    LET before == {j \in 1..(i - 1) :
                      /\ t.data["tpu"][j] = t.data["tpu"][i]
                      /\ t.data["reactor"][j] = t.data["reactor"][i]}
    IN  IF before = {} THEN 0 ELSE CHOOSE j \in before : \A k \in before : k <= j

Enriched == op = "enrich" /\ ret_is_arg = FALSE

\* C9: in the enrichment of a cleaned table each series is in date order,
\* its first row has no density_change and no density_change_pct, and every
\* later row's density_change is its measurement minus that of the row just
\* before it in the same series.
C9_DeltaWithinSeries ==
    Enriched =>
        \A i \in 1..NRows(ret) :
            LET p == SeriesPrev(ret, i)
                m == ret.data["algae_density"]
                delta == ret.data["density_change"][i]
            IN  IF p = 0
                THEN /\ isna(delta)
                     /\ isna(ret.data["density_change_pct"][i])
                ELSE /\ ret.data["date"][p].n <= ret.data["date"][i].n
                     /\ delta.k = "num"
                     /\ delta.n = (m[i].n - m[p].n) * delta.d

C9_Witness ==
    /\ Enriched
    /\ NRows(ret) = 3
    /\ SeriesPrev(ret, 2) = 1
    /\ SeriesPrev(ret, 3) = 0
    /\ ret.data["density_change"][2] = Num(12)
    /\ arg.data["tpu"][2] # arg.data["tpu"][3]

\* C10: density_change_pct of a row whose predecessor in the series measures
\* exactly 0 is absent; of every other non-first row it is
\* 100 * (measurement[i] - measurement[i-1]) / measurement[i-1].
C10_PctChangeAbsentAfterZero ==
    Enriched =>
        \A i \in 1..NRows(ret) :
            LET p == SeriesPrev(ret, i)
                m == ret.data["algae_density"]
                pct == ret.data["density_change_pct"][i]
            IN  p # 0 =>
                    IF m[p].n = 0
                    THEN isna(pct)
                    ELSE /\ pct.k = "num"
                         /\ pct.n * m[p].n = 10 * 100 * (m[i].n - m[p].n) * pct.d

----------------------------------------------------------------------------
(* C11 *)

\* the category the specification gives a measurement of n/d tenths
SpecCategory(m) ==
    IF m.n < 0 \/ m.n > 30 * m.d THEN NaN
    ELSE IF m.n <= 5 * m.d THEN Str("Very Low")
    ELSE IF m.n <= 10 * m.d THEN Str("Low")
    ELSE IF m.n <= 15 * m.d THEN Str("Medium")
    ELSE IF m.n <= 20 * m.d THEN Str("High")
    ELSE Str("Very High")

\* C11: the enricher gives every measurement m the category Very Low for
\* 0 <= m <= 0.5, Low for 0.5 < m <= 1.0, Medium for 1.0 < m <= 1.5, High
\* for 1.5 < m <= 2.0, Very High for 2.0 < m <= 3.0, and a missing category,
\* without failing, for m < 0 or m > 3.
C11_DensityCategoryBuckets ==
    (op = "enrich" /\ argstage = "typed") =>
        /\ ~ret_is_arg
        /\ ~raised
        /\ NRows(ret) = NRows(arg)
        /\ \A i \in 1..NRows(ret) :
               ret.data["density_category"][i]
                   = SpecCategory(ret.data["algae_density"][i])

\* an enriched table with the measurements 0.0, 1.5 and 3.1
C11_Witness ==
    /\ op = "enrich"
    /\ argstage = "typed"
    /\ NRows(ret) = 3
    /\ \E i, j, k \in 1..3 :
           /\ ret.data["algae_density"][i] = Num(0)
           /\ ret.data["density_category"][i] = Str("Very Low")
           /\ ret.data["algae_density"][j] = Num(15)
           /\ ret.data["density_category"][j] = Str("Medium")
           /\ ret.data["algae_density"][k] = Num(31)
           /\ ret.data["density_category"][k] = NaN

----------------------------------------------------------------------------
(* C12 *)

\* the last call was an aggregation that did not fail
Aggregated == op = "aggregate" /\ HasCol(ret, "measurement_count")

\* C12: in the aggregator's result std_density is missing (not zero) in every
\* row whose measurement_count is 1, and a non-negative number in every row
\* whose measurement_count is 2 or more.
C12_StdAbsentForSingleton ==
    Aggregated =>
        \A g \in 1..NRows(ret) :
            LET cnt == ret.data["measurement_count"][g]
                std == ret.data["std_density"][g]
            IN  /\ cnt.k = "num"
                /\ cnt.n = 10 * cnt.d => std = NaN
                /\ cnt.n >= 20 * cnt.d => std.k = "num" /\ std.n >= 0

\* a result with a group of one measurement and a group of two equal ones
C12_Witness ==
    /\ Aggregated
    /\ \E g, h \in 1..NRows(ret) :
           /\ ret.data["measurement_count"][g] = Num(10)
           /\ ret.data["std_density"][g] = NaN
           /\ ret.data["measurement_count"][h] = Num(20)
           /\ ret.data["std_density"][h] = Num(0)

----------------------------------------------------------------------------
(* C13 *)

\* the rows of the argument whose key is that of row g of the result
KeyRows(g) ==
    {i \in 1..NRows(arg) :
        \A c \in Range(GroupKeys) : arg.data[c][i] = ret.data[c][g]}

\* C13: on a cleaned table the aggregator returns one row per distinct
\* (date, tpu, reactor) key of the input and no other row; every
\* measurement_count is at least 1 and is the number of input rows of the
\* key, the counts sum to the number of input rows, and
\* min_density <= avg_density <= max_density in every row.
C13_OneRowPerKey ==
    (op = "aggregate" /\ argstage = "cleaned" /\ HasCols(arg, Required)) =>
        /\ Aggregated
        /\ \A i \in 1..NRows(arg) : \E g \in 1..NRows(ret) : i \in KeyRows(g)
        /\ \A g \in 1..NRows(ret) : KeyRows(g) # {}
        /\ \A g, h \in 1..NRows(ret) : g # h => KeyRows(g) \cap KeyRows(h) = {}
        /\ \A g \in 1..NRows(ret) :
               /\ ret.data["measurement_count"][g] = Num(10 * Cardinality(KeyRows(g)))
               /\ ~CellLess(ret.data["avg_density"][g], ret.data["min_density"][g])
               /\ ~CellLess(ret.data["max_density"][g], ret.data["avg_density"][g])
               /\ ret.data["avg_density"][g].k = "num"
        /\ SumCells(ret.data["measurement_count"]) = Num(10 * NRows(arg))

\* three cleaned rows of two keys, the key of two rows with different
\* measurements
C13_Witness ==
    /\ op = "aggregate"
    /\ argstage = "cleaned"
    /\ NRows(arg) = 3
    /\ NRows(ret) = 2
    /\ \E g \in 1..2 :
           /\ Cardinality(KeyRows(g)) = 2
           /\ CellLess(ret.data["min_density"][g], ret.data["avg_density"][g])
           /\ CellLess(ret.data["avg_density"][g], ret.data["max_density"][g])

----------------------------------------------------------------------------
(* C14 *)

RECURSIVE SumInts(_)
SumInts(xs) == IF xs = <<>> THEN 0 ELSE Head(xs) + SumInts(Tail(xs))

\* the measurements (whole numbers of tenths) of the argument's rows whose
\* key is that of row g of the result
KeyMeasurements(g) ==
    LET pos == SelectSeq(Positions(arg), LAMBDA i : i \in KeyRows(g))
    IN  [k \in 1..Len(pos) |-> arg.data["algae_density"][pos[k]].n]

\* the rows of the aggregation example
ExampleTable ==
    MakeTable(<<[date |-> Date(20240101), tpu |-> Num(10), reactor |-> Num(10),
                 algae_density |-> Num(12)],
                [date |-> Date(20240101), tpu |-> Num(10), reactor |-> Num(10),
                 algae_density |-> Num(14)],
                [date |-> Date(20240102), tpu |-> Num(10), reactor |-> Num(10),
                 algae_density |-> Num(16)]>>, required_columns)

\* C14: per key the aggregator gives the mean, the minimum, the maximum and
\* the sample standard deviation (divisor count - 1) of the measurements,
\* each rounded to 4 fractional digits (3 digits of a tenth); the rows
\* (2024-01-01, 1, 1, 1.2), (2024-01-01, 1, 1, 1.4), (2024-01-02, 1, 1, 1.6)
\* give mean 1.3, min 1.2, max 1.4, count 2, stddev 0.1414 for the first
\* date and mean = min = max = 1.6, count 1, stddev missing for the second.
C14_AggregatesRounded ==
    (op = "aggregate" /\ argstage = "typed") =>
        /\ Aggregated
        /\ \A g \in 1..NRows(ret) :
               LET xs == KeyMeasurements(g)
                   N == Len(xs)
                   S == SumInts(xs)
                   Q == SumInts([k \in 1..N |-> xs[k] * xs[k]])
                   avg == ret.data["avg_density"][g]
                   std == ret.data["std_density"][g]
               IN  /\ N >= 1
                   /\ ret.data["min_density"][g] \in {Num(xs[k]) : k \in 1..N}
                   /\ \A k \in 1..N : ret.data["min_density"][g].n <= xs[k]
                   /\ ret.data["max_density"][g] \in {Num(xs[k]) : k \in 1..N}
                   /\ \A k \in 1..N : ret.data["max_density"][g].n >= xs[k]
                   /\ avg.k = "num"
                   /\ 1000 % avg.d = 0
                   /\ 2000 * Abs(avg.n * N - S * avg.d) <= avg.d * N
                   /\ N = 1 => std = NaN
                   /\ N >= 2 =>
                          /\ std.k = "num"
                          /\ 1000 % std.d = 0
                          /\ LET k == std.n * (1000 \div std.d)
                                 P == N * Q - S * S
                                 D == N * (N - 1)
                                 F == 4000000 * (P \div D)
                                          + (4000000 * (P % D)) \div D
                             IN  /\ k >= 0
                                 /\ k > 0 => (2 * k - 1) * (2 * k - 1) <= F
                                 /\ F < (2 * k + 1) * (2 * k + 1)
        /\ arg = ExampleTable =>
               /\ NRows(ret) = 2
               /\ ret.data["date"] = <<Date(20240101), Date(20240102)>>
               /\ ret.data["tpu"] = <<Num(10), Num(10)>>
               /\ ret.data["reactor"] = <<Num(10), Num(10)>>
               /\ ret.data["avg_density"] = <<Num(13), Num(16)>>
               /\ ret.data["min_density"] = <<Num(12), Num(16)>>
               /\ ret.data["max_density"] = <<Num(14), Num(16)>>
               /\ ret.data["measurement_count"] = <<Num(20), Num(10)>>
               /\ ret.data["std_density"] = <<Frac(1414, 1000), NaN>>

\* the example table has been aggregated
C14_Witness ==
    /\ op = "aggregate"
    /\ arg = ExampleTable
    /\ NRows(ret) = 2

----------------------------------------------------------------------------
(* C15 *)

AggregateColumns ==
    GroupKeys \o <<"avg_density", "min_density", "max_density", "std_density",
                   "measurement_count">>

\* C15: the aggregator never raises; when a column it needs is absent it
\* returns a table with no row (and no column), which is neither a partial
\* aggregate nor its argument; otherwise it returns the whole aggregate.
C15_AggregateFailsClosed ==
    op = "aggregate" =>
        /\ ~raised
        /\ ~ret_none
        /\ ~ret_is_arg
        /\ ~HasCols(arg, Required) => ret = NoTable /\ ret # arg
        /\ ret = NoTable \/ ret.columns = AggregateColumns

\* a table with rows but without the reactor column has been aggregated
C15_Witness ==
    /\ op = "aggregate"
    /\ NRows(arg) > 0
    /\ HasCol(arg, "tpu")
    /\ ~HasCol(arg, "reactor")
    /\ NRows(ret) = 0
    /\ ret.columns = <<>>

----------------------------------------------------------------------------
(* C16 *)

DerivedColumns ==
    {"year", "month", "day", "day_of_week", "week_of_year", "density_category",
     "density_change", "density_change_pct"}

\* C16: the enricher never raises; given a table whose date column is absent
\* or is not a Timestamp column (as after a cleaning that failed open) it
\* returns that very table, unchanged and without any derived column.
C16_EnrichFailsOpen ==
    op = "enrich" =>
        /\ ~raised
        /\ ~ret_none
        /\ (~HasCol(arg, "date") \/ arg.dtypes["date"] # "datetime") =>
               /\ ret_is_arg
               /\ ret = arg
               /\ post = arg
               /\ DerivedColumns \cap Range(ret.columns) = {}

\* a table the cleaner returned fail-open, with rows, has been enriched
C16_Witness ==
    /\ op = "enrich"
    /\ argstage = "cleaned"
    /\ NRows(arg) > 0
    /\ HasCol(arg, "date")
    /\ arg.dtypes["date"] = "object"
    /\ ret = arg
    /\ ret_is_arg

----------------------------------------------------------------------------
(* C17 *)

\* C17: when the validator called by process_flowcam_file reports
\* is_valid = FALSE, the result is None, no table is returned, and neither
\* the cleaner nor the enricher has been invoked.
C17_InvalidStopsProcessing ==
    (op = "process" /\ ~report.is_valid) =>
        /\ ret_none
        /\ ret = NoTable
        /\ calls = <<"read_flowcam_csv", "validate_flowcam_data">>
        /\ ~raised

\* a readable file with rows whose table fails the validation
C17_Witness ==
    /\ op = "process"
    /\ NRows(arg) > 0
    /\ ~report.is_valid
    /\ report.errors # <<>>
    /\ ret_none

----------------------------------------------------------------------------
(* C18 *)

\* C18: for a readable file whose table t passes the validation,
\* process_flowcam_file invokes the validator, the cleaner and the enricher
\* once each, in that order, never the aggregator, and returns
\* add_derived_columns(clean_flowcam_data(t)) computed on the raw table t.
C18_ProcessIsCleanThenEnrich ==
    (op = "process" /\ Len(calls) > 1 /\ report.is_valid) =>
        /\ calls = <<"read_flowcam_csv", "validate_flowcam_data",
                     "clean_flowcam_data", "add_derived_columns">>
        /\ ~ret_none
        /\ ret = add_derived_columns(clean_flowcam_data(arg).ret).ret

\* a file with a row that the cleaner drops and two rows that are enriched
C18_Witness ==
    /\ op = "process"
    /\ report.is_valid
    /\ report.warnings # <<>>
    /\ NRows(arg) = 3
    /\ NRows(ret) = 2
    /\ HasCol(ret, "density_change")

----------------------------------------------------------------------------
(* C19 *)

\* C19: no call of the five methods lets an exception reach the caller,
\* whatever columns are missing, values unparseable or out of range, or
\* file unreadable: a validation ends with a report, a cleaning, an
\* enrichment and an aggregation with a table (populated or empty), and a
\* processing with a table or None.
C19_NoCallRaises ==
    /\ ~raised
    /\ op = "validate" =>
           /\ ~ret_none
           /\ report.row_count = NRows(arg)
           /\ report.is_valid = (report.errors = <<>>)
    /\ op \in {"clean", "enrich", "aggregate"} =>
           /\ ~ret_none
           /\ DOMAIN ret.data = Range(ret.columns)
    /\ op = "process" =>
           \/ ret_none /\ ret = NoTable
           \/ ~ret_none /\ HasCols(ret, Required)

\* a file with rows that cannot be read has been processed
C19_Witness ==
    /\ op = "process"
    /\ NRows(arg) > 0
    /\ calls = <<"read_flowcam_csv">>
    /\ ret_none
    /\ ~raised

----------------------------------------------------------------------------
(* C20 *)

\* the argument makes the try body of the cleaner or the enricher fail
FailsOpen ==
    \/ ~HasCols(arg, Required)
    \/ op = "enrich" /\ arg.dtypes["date"] # "datetime"

\* C20 as stated: the cleaner, the enricher and the aggregator each return
\* a new table and leave the table they received unchanged.
C20_NewTableArgumentUnchanged ==
    op \in {"clean", "enrich", "aggregate"} =>
        /\ ~ret_is_arg
        /\ post = arg

\* C20 amended: the three methods leave the table they received unchanged;
\* the aggregator always returns a new table, the cleaner and the enricher
\* return a new table unless their body fails, and then the table they
\* received.
C20_ArgumentUnchanged ==
    op \in {"clean", "enrich", "aggregate"} =>
        /\ post = arg
        /\ ret_is_arg = (op # "aggregate" /\ FailsOpen)
        /\ ret_is_arg => ret = arg

\* a table some of whose rows the cleaner dropped, which it left unchanged
C20_Witness ==
    /\ op = "clean"
    /\ ~ret_is_arg
    /\ post = arg
    /\ NRows(arg) = 3
    /\ NRows(ret) = 1
    /\ ret.dtypes["date"] # arg.dtypes["date"]

----------------------------------------------------------------------------
(* C21 *)

\* C21: however the steps of two invocations interleave, on one processor
\* or on two, an invocation that has ended has the result it has when run
\* alone, and the configuration of every processor stays as __init__ set it.
C21_InvocationsIndependent ==
    inv # <<>> =>
        /\ \A k \in Invocations : inv.processors[k] = ProcessorConfig
        /\ \A i \in Invocations :
               inv.frames[i].pc = "done" =>
                   LET alone == process_flowcam_file(inv.frames[i].file)
                   IN  /\ inv.frames[i].none = alone.none
                       /\ inv.frames[i].result = alone.ret
                       /\ inv.frames[i].validation = alone.report

\* both invocations, on one processor, have ended, with different enriched
\* tables
C21_Witness ==
    /\ inv # <<>>
    /\ inv.frames[1].pc = "done"
    /\ inv.frames[2].pc = "done"
    /\ inv.frames[2].proc = 1
    /\ NRows(inv.frames[1].result) = 1
    /\ NRows(inv.frames[2].result) = 1
    /\ inv.frames[1].result # inv.frames[2].result

----------------------------------------------------------------------------
(* C22 *)

\* the rows of t are in ascending order of the key columns by
SortedBy(t, by) ==
    /\ HasCols(t, Range(by))
    /\ \A i, j \in 1..NRows(t) : i < j => ~RowLess(t, by, j, i)

DenseIndex(t) == t.index = [i \in 1..NRows(t) |-> i - 1]

\* C22 as stated: the table the cleaner returns is sorted ascending by
\* (date, tpu, reactor) and has the row index 0..n-1 in that order.
C22_ReturnedTableSorted ==
    op = "clean" =>
        /\ SortedBy(ret, <<"date", "tpu", "reactor">>)
        /\ DenseIndex(ret)

\* C22 amended: for an input with the four required columns, the table the
\* cleaner returns is sorted ascending by (date, tpu, reactor) and has the
\* row index 0..n-1 in that order.
C22_CleanedTableSorted ==
    (op = "clean" /\ HasCols(arg, Required)) =>
        /\ SortedBy(ret, <<"date", "tpu", "reactor">>)
        /\ DenseIndex(ret)

\* three rows given latest date first come back earliest date first
C22_Witness ==
    /\ op = "clean"
    /\ argstage = "raw"
    /\ NRows(arg) = 3
    /\ NRows(ret) = 3
    /\ arg.data["date"][1] = Str("2024-01-02")
    /\ ret.data["date"][1] = Date(20240101)
    /\ ret.data["date"][3] = Date(20240102)
    /\ ret.data["tpu"][1] = Num(10)
    /\ ret.data["tpu"][2] = Num(100)

----------------------------------------------------------------------------
(* C23 *)

\* the number of rows of t whose cells in the columns cols are those of
\* row i of table a
Occurrences(t, a, i, cols) ==
    Cardinality({j \in 1..NRows(t) : \A c \in cols : t.data[c][j] = a.data[c][i]})

\* b has the rows of a, each as often, in the columns of a
SameRows(a, b) ==
    /\ NRows(a) = NRows(b)
    /\ DOMAIN a.data \subseteq DOMAIN b.data
    /\ \A i \in 1..NRows(a) :
           Occurrences(b, a, i, DOMAIN a.data) = Occurrences(a, a, i, DOMAIN a.data)

----------------------------------------------------------------------------
(* C24 *)

\* the last call processed a readable file whose table passed validation
Processed == op = "process" /\ Len(calls) > 1 /\ report.is_valid

\* the columns the enricher adds, in the order it adds them
DerivedInOrder ==
    <<"year", "month", "day", "day_of_week", "week_of_year", "density_category",
      "density_change", "density_change_pct">>

\* C24 as stated: when validation does not fail fatally, the table
\* process_flowcam_file returns has every column of the input table, none
\* removed or renamed, plus nine derived columns.
C24_NineDerivedColumns ==
    Processed =>
        /\ Range(arg.columns) \subseteq Range(ret.columns)
        /\ Cardinality(Range(ret.columns) \ Range(arg.columns)) = 9

\* C24 amended: the returned table has the columns of the input table, in
\* their order, followed by the eight derived columns year, month, day,
\* day_of_week, week_of_year, density_category, density_change and
\* density_change_pct.
C24_EightDerivedColumns ==
    Processed =>
        /\ ret.columns = arg.columns \o DerivedInOrder
        /\ DOMAIN ret.data = Range(ret.columns)
        /\ Range(DerivedInOrder) = DerivedColumns
        /\ Cardinality(Range(ret.columns) \ Range(arg.columns)) = 8

\* a file with a pass-through column has been processed into a table with rows
C24_Witness ==
    /\ Processed
    /\ HasCol(arg, "notes")
    /\ HasCol(ret, "notes")
    /\ NRows(ret) = 2
    /\ Len(ret.columns) = 13

\* the calls of the method of the client made by the last operation
CallsOf(method) ==
    {i \in 1..Len(s3mgr.log) : s3mgr.log[i].method = method}

\* C25: upload_file with a local path that does not exist returns False
\* and never calls the client's upload_file, even when the bucket check
\* succeeds (stated of the calls that return).
C25_MissingFileNotUploaded ==
    (s3mgr.made /\ s3mgr.op = "upload_file" /\ s3mgr.file_exists = FALSE
       /\ s3mgr.raised = "none")
    => /\ s3mgr.ret = FALSE
       /\ CallsOf("upload_file") = {}

ArgsAtConstruction ==
    [endpoint_url |-> getenv(s3mgr.env0, "S3_ENDPOINT_URL", PyNone),
     aws_access_key_id |-> getenv(s3mgr.env0, "S3_ACCESS_KEY", PyNone),
     aws_secret_access_key |-> getenv(s3mgr.env0, "S3_SECRET_KEY", PyNone),
     region_name |-> getenv(s3mgr.env0, "S3_REGION", "us-east-1")]

\* C29: over any sequence of operations on one S3Manager the boto3 client
\* is constructed at most once, with the endpoint, keys and region read
\* from the environment when the manager was constructed, and every
\* operation uses that one client.
C29_OneClient ==
    s3mgr.made
    => /\ Len(s3mgr.clients) <= 1
       /\ \A i \in 1..Len(s3mgr.clients) : s3mgr.clients[i] = ArgsAtConstruction
       /\ \A i \in 1..Len(s3mgr.log) :
            s3mgr.log[i].client = 1 /\ s3mgr.client = 1
       /\ (s3mgr.op = "client" /\ s3mgr.raised = "none") => s3mgr.ret = 1

\* an upload of three calls on the client as the third operation, after
\* the environment was changed
C29_Witness ==
    /\ s3mgr.made /\ s3mgr.nops = 3 /\ s3mgr.env # s3mgr.env0
    /\ s3mgr.op = "upload_file" /\ s3mgr.raised = "none"
    /\ Len(s3mgr.log) = 3
    /\ Len(s3mgr.clients) = 1

\* C30: ensure_bucket and upload_file return a boolean and never raise for
\* any ClientError of head_bucket, whatever its code; for every code other
\* than 404 they return False, and upload_file then performs no upload.
C30_NeverRaisesOnClientError ==
    (s3mgr.made /\ s3mgr.op \in {"ensure_bucket", "upload_file"})
    => \A i \in CallsOf("head_bucket") :
         s3mgr.log[i].answer \in ErrorCodes
         => /\ s3mgr.raised = "none"
            /\ s3mgr.ret \in BOOLEAN
            /\ s3mgr.log[i].answer # "404"
                 => s3mgr.ret = FALSE /\ CallsOf("upload_file") = {}

\* the tasks in the order of the claimed chain
ChainOrder ==
    <<"seed_demo_data", "upload_to_s3", "load_to_database",
      "validate_data_quality", "run_dbt_transformation">>

\* the tasks reached from the tasks of S by downstream edges
RECURSIVE Reach(_)
Reach(S) ==
    LET more == S \cup UNION {Downstream(t) : t \in S}
    IN  IF more = S THEN S ELSE Reach(more)

\* the task instance has started in this run
Started(t) == dag.try_number[t] > 0

\* C27: the tasks form the acyclic linear chain seed_demo_data ->
\* upload_to_s3 -> load_to_database -> validate_data_quality ->
\* run_dbt_transformation; a task starts only after its predecessor has
\* succeeded, and while a task's callable has raised no later task has
\* started.
C27_LinearChainInOrder ==
    dag.started
    => /\ Tasks = {ChainOrder[i] : i \in 1..Len(ChainOrder)}
       /\ \A i \in 1..Len(ChainOrder) :
            Upstream(ChainOrder[i])
              = IF i = 1 THEN {} ELSE {ChainOrder[i - 1]}
       /\ \A t \in Tasks : t \notin Reach(Downstream(t))
       /\ \A i \in 2..Len(ChainOrder) :
            Started(ChainOrder[i]) => dag.state[ChainOrder[i - 1]] = "success"
       /\ \A i \in 1..Len(ChainOrder) :
            dag.state[ChainOrder[i]] \in {"up_for_retry", "failed"}
            => \A j \in (i + 1)..Len(ChainOrder) : ~Started(ChainOrder[j])

\* the last task runs after the fourth raised once and succeeded at its
\* retry
C27_Witness ==
    /\ dag.started
    /\ dag.state["run_dbt_transformation"] = "running"
    /\ dag.try_number["validate_data_quality"] = 2
    /\ dag.state["validate_data_quality"] = "success"

\* the cells of column c of the argument that pd.to_numeric turns into a
\* number
Coerced(c) == {i \in 1..NRows(arg) : ~isna(to_numeric(arg.data[c][i]))}

\* the coerced cells of column c outside the inclusive range
Outside(c, range) ==
    {i \in Coerced(c) : LET v == to_numeric(arg.data[c][i])
                        IN  v.n < range[1] * v.d \/ v.n > range[2] * v.d}

\* the warnings of the report that end with the text
WarningsOf(text) ==
    {i \in 1..Len(report.warnings) :
        \E n \in 0..NRows(arg) : report.warnings[i] = ToString(n) \o text}

\* the report holds the warning of the text, once and with the count n,
\* exactly when n is positive
WarnedOnce(n, text) ==
    /\ Cardinality(WarningsOf(text)) = (IF n > 0 THEN 1 ELSE 0)
    /\ \A i \in WarningsOf(text) : report.warnings[i] = ToString(n) \o text

\* C28: for a table with the four required columns the validator appends
\* an out-of-range warning for unit_id, sub_unit_id or measurement exactly
\* when some successfully coerced value lies outside its inclusive range,
\* with the count of those values; a value that failed coercion is counted
\* only in the invalid-values warning; each of the seven warnings appears
\* at most once.
C28_OutOfRangeWarnings ==
    (op = "validate" /\ HasCols(arg, Required))
    => /\ WarnedOnce(Cardinality(Outside("tpu", <<1 * 10, 10 * 10>>)),
                     " TPU values out of range")
       /\ WarnedOnce(Cardinality(Outside("reactor", <<1 * 10, 20 * 10>>)),
                     " reactor values out of range")
       /\ WarnedOnce(Cardinality(Outside("algae_density", <<0, 30>>)),
                     " density values out of range")
       /\ WarnedOnce(NRows(arg) - Cardinality(Coerced("tpu")),
                     " invalid TPU values found")
       /\ WarnedOnce(NRows(arg) - Cardinality(Coerced("reactor")),
                     " invalid reactor values found")
       /\ WarnedOnce(NRows(arg) - Cardinality(Coerced("algae_density")),
                     " invalid density values found")
       /\ Cardinality(WarningsOf(" invalid dates found")) <= 1
       /\ \A i \in 1..Len(report.warnings) :
            \E text \in {" invalid dates found", " invalid TPU values found",
                         " TPU values out of range",
                         " invalid reactor values found",
                         " reactor values out of range",
                         " invalid density values found",
                         " density values out of range"} :
               i \in WarningsOf(text)

\* a table with a unit that is no number, a unit text above the range and
\* a unit at the upper bound: one invalid and one out of range
C28_Witness ==
    /\ op = "validate" /\ HasCols(arg, Required)
    /\ NRows(arg) = 3
    /\ \E i, j, k \in 1..NRows(arg) :
         /\ arg.data["tpu"][i] = Str("abc")
         /\ arg.data["tpu"][j] = Str("15")
         /\ arg.data["tpu"][k] = Num(100)
    /\ report.warnings = <<"1 invalid TPU values found",
                           "1 TPU values out of range">>

====
